---- MODULE Spec2Model ----
(***************************************************************************)
(* Verification model of trl/trainer/multidpo_trainer.py (MultiDPOTrainer  *)
(* and DataCollatorForPreference).                                         *)
(*                                                                         *)
(* Five specifications share the variables below:                           *)
(*   SpecBatch  batch assembly and scoring: torch_call,                    *)
(*              concatenated_inputs, concatenated_forward                  *)
(*   SpecLoss   the loss engine: dpo_loss, multidpo_loss and the reward    *)
(*              accuracy of get_batch_loss_metrics                         *)
(*   SpecData   dataset preparation: tokenize_row and _prepare_dataset on  *)
(*              the key set of a row                                       *)
(*   SpecMetrics  the metrics store: store_metrics and log                 *)
(*   Spec       the trainer life cycle: __init__, get_train_dataloader,    *)
(*              get_eval_dataloader, train and eval steps                  *)
(* A specification pins the variables of the others to their idle values.  *)
(*                                                                         *)
(* Numbers are fixed point: log-probabilities, logits, rewards and losses  *)
(* are integers in units of 1/SCALE.                                       *)
(***************************************************************************)
EXTENDS Integers, Sequences, FiniteSets, TLC

VARIABLES
    \* ---- batch assembly and scoring (SpecBatch) ----
    bpc,                 \* position: "idle", "examples", "collated", "concatenated", "scored"
    examples,            \* the tokenized rows handed to the collator
    max_length,          \* self.max_length (None or a width)
    truncation_mode,     \* self.truncation_mode
    padding_free,        \* self.padding_free
    is_encoder_decoder,  \* self.is_encoder_decoder
    ld_alpha,            \* self.args.ld_alpha (None or a factor)
    is_ref_model,        \* the is_ref_model argument of concatenated_forward
    batch,               \* output of DataCollatorForPreference.torch_call
    concatenated_batch,  \* output of concatenated_inputs
    model_output,        \* output of concatenated_forward
    \* ---- loss engine (SpecLoss) ----
    lpc,                 \* "idle", or the last call: "inputs", "dpo_loss", "multidpo_loss", "metrics"
    calls,               \* number of loss calls made so far
    loss_type,           \* self.loss_type
    lambda_weight,       \* self.lambda_weight
    label_smoothing,     \* self.label_smoothing
    reference_free,      \* self.reference_free
    f_divergence_type,   \* self.f_divergence_type
    running,             \* self.running (RunningMoments), None unless loss_type is bco_pair
    policy_logps,        \* the four policy groups of one batch
    ref_logps,           \* the four reference groups of the same batch
    loss_out,            \* what the last call returned
    metrics,             \* the metrics of the last get_batch_loss_metrics
    \* ---- dataset preparation (SpecData) ----
    dpc,                 \* "idle", "input", or the last call: "tokenize_row", "prepare_dataset"
    features,            \* the keys of the row (the columns of the dataset)
    texts,               \* for each key of the row, the token ids the tokenizer gives its text
    arg_max_prompt_length,      \* argument max_prompt_length of tokenize_row (None or a length)
    arg_max_completion_length,  \* argument max_completion_length of tokenize_row
    add_special_tokens,  \* argument of tokenize_row
    data_out,            \* what the last call returned or raised
    \* ---- trainer life cycle (Spec) ----
    tpc,                 \* "idle", "new" (arguments chosen), "ready" (constructed), "failed"
    args,                \* the arguments of __init__
    train_dataset,       \* self.train_dataset
    eval_dataset,        \* self.eval_dataset
    precomputed_train_ref_log_probs,   \* self._precomputed_train_ref_log_probs
    precomputed_eval_ref_log_probs,    \* self._precomputed_eval_ref_log_probs
    error,               \* the last exception raised
    train_dataloader,    \* the dataset behind the last train dataloader returned
    eval_dataloader,     \* the dataset behind the last eval dataloader returned
    served,              \* the datasets a dataloader was asked and returned for
    ref_passes,          \* per dataset, the precompute passes made over it
    loader_calls,        \* get_train_dataloader and get_eval_dataloader calls so far
    steps_started,       \* training and evaluation steps begun
    policy_forwards,     \* forward passes of the policy model
    ref_forwards,        \* compute_ref_log_probs calls, passes and steps together
    step_ref_calls,      \* compute_ref_log_probs calls made by get_batch_loss_metrics
    callbacks,           \* the callbacks __init__ registered with add_callback
    \* the metrics store
    stored_metrics,      \* self._stored_metrics: phase -> key -> list of values
    logs,                \* the record the last log call handed to Trainer.log
    since_flush,         \* history: the <<key, value>> pairs stored for each phase
                         \* since the last log call that flushed that phase
    metric_calls,        \* store_metrics and log calls so far
    \* the adapters of the policy model, when it also serves as the reference
    rpc,                 \* where the last compute_ref_log_probs call ended
    is_peft_model,       \* self.is_peft_model
    ref_adapter_name,    \* self.ref_adapter_name
    model_adapter_name,  \* self.model_adapter_name
    active_adapter,      \* the adapter selected on self.model
    adapter_enabled,     \* FALSE inside disable_adapter()
    ref_ran_with,        \* history: the adapter and its state during the forward
                         \* pass of the last compute_ref_log_probs call
    policy_ran_with,     \* history: the same for the last forward pass of the policy
    adapter_calls        \* compute_ref_log_probs calls and policy forward passes so far

batchVars == <<bpc, examples, max_length, truncation_mode, padding_free, ld_alpha, is_ref_model,
              is_encoder_decoder,
               batch, concatenated_batch, model_output>>

lossVars == <<lpc, calls, loss_type, lambda_weight, label_smoothing, reference_free,
              f_divergence_type, running, policy_logps, ref_logps, loss_out, metrics>>

dataVars == <<dpc, features, texts, arg_max_prompt_length, arg_max_completion_length,
              add_special_tokens, data_out>>

trainerVars == <<tpc, args, train_dataset, eval_dataset, precomputed_train_ref_log_probs,
                 precomputed_eval_ref_log_probs, error, train_dataloader, eval_dataloader,
                 served, ref_passes, loader_calls, steps_started, policy_forwards,
                 ref_forwards, step_ref_calls, callbacks>>

metricsVars == <<stored_metrics, logs, since_flush, metric_calls>>

adapterVars == <<rpc, is_peft_model, ref_adapter_name, model_adapter_name, active_adapter,
                 adapter_enabled, ref_ran_with, policy_ran_with, adapter_calls>>

vars == <<batchVars, lossVars, dataVars, trainerVars, metricsVars, adapterVars>>

\* Python's None: an absent optional value is the empty tuple, a present one <<v>>
None == <<>>

(***************************************************************************)
(* Bounds                                                                  *)
(***************************************************************************)
MaxN == 2          \* examples per batch
MaxLen == 2        \* tokens per tokenized field
MaxLength == 3     \* the configured max_length when it is set

(***************************************************************************)
(* Generic helpers on sequences and tensors (a tensor of shape (N, W) is a *)
(* sequence of N rows, each a sequence of W integers)                      *)
(***************************************************************************)
MaxOf(S) == CHOOSE m \in S : \A x \in S : x <= m

Repeat(v, n) == [k \in 1..n |-> v]

RECURSIVE SumSeq(_)
SumSeq(s) == IF s = <<>> THEN 0 ELSE Head(s) + SumSeq(Tail(s))

Width(t) == IF t = <<>> THEN 0 ELSE Len(t[1])

ones_like(s) == [k \in 1..Len(s) |-> 1]

zeros_like_filled_with_ones(t) == [r \in 1..Len(t) |-> [k \in 1..Len(t[r]) |-> 1]]

zeros_like(t) == [r \in 1..Len(t) |-> [k \in 1..Len(t[r]) |-> 0]]

\* torch.cat(..., dim=1) of two tensors with the same number of rows
cat1(a, b) == [r \in 1..Len(a) |-> a[r] \o b[r]]

\* t[:, :n]
first_cols(t, n) == [r \in 1..Len(t) |-> SubSeq(t[r], 1, IF n < Len(t[r]) THEN n ELSE Len(t[r]))]

last_cols_taking_first(t, n) ==
    [r \in 1..Len(t) |-> SubSeq(t[r], 1, IF n < Len(t[r]) THEN n ELSE Len(t[r]))]

\* t[:, -n:]
last_cols(t, n) ==
    [r \in 1..Len(t) |-> SubSeq(t[r], (IF n < Len(t[r]) THEN Len(t[r]) - n ELSE 0) + 1, Len(t[r]))]

\* torch.roll(t, shifts=-1, dims=1)
roll_left(t) ==
    [r \in 1..Len(t) |-> IF t[r] = <<>> THEN <<>> ELSE Tail(t[r]) \o <<Head(t[r])>>]

\* torch.roll(t, shifts=1, dims=1)
roll_right(t) ==
    [r \in 1..Len(t) |->
        IF t[r] = <<>> THEN <<>>
        ELSE <<t[r][Len(t[r])]>> \o SubSeq(t[r], 1, Len(t[r]) - 1)]

\* fixed-point arithmetic: a real x is the integer x * SCALE
SCALE == 1000

\* a / b rounded to the nearest integer (b > 0)
RDiv(a, b) == (2 * a + b) \div (2 * b)

\* product of two fixed-point numbers, a b / SCALE rounded; the whole and the
\* fractional part of a are multiplied apart to stay within 32 bits
FMul(a, b) == (a \div SCALE) * b + RDiv((a % SCALE) * b, SCALE)

\* quotient of two fixed-point numbers
FDiv(a, b) == RDiv(a * SCALE, b)
(***************************************************************************)
(* Tokenized examples.  Every token of every field of every example has   *)
(* its own id, so a dropped, duplicated or misplaced token is visible.     *)
(***************************************************************************)
InputFields == <<"prompt_input_ids", "chosen_response_input_ids", "rejected_response_input_ids",
                 "chosen_prompt_input_ids", "rejected_prompt_input_ids", "response_input_ids">>

FieldSet == {InputFields[k] : k \in 1..Len(InputFields)}

FieldIdx(f) == CHOOSE k \in 1..Len(InputFields) : InputFields[k] = f

Tok(i, f, k) == 100 * i + 10 * FieldIdx(f) + k

TokSeq(i, f, n) == [k \in 1..n |-> Tok(i, f, k)]

\* the length profiles of one example: all fields equally long, or one field
\* of a different length than the other five
Shapes ==
    {s \in [FieldSet -> 1..MaxLen] :
        \E f \in FieldSet : \A g, h \in FieldSet \ {f} : s[g] = s[h]}

\* the length profiles of a batch of n examples: at most one example has a
\* field of its own length
BatchShapes(n) ==
    {ss \in [1..n -> Shapes] :
        \E j \in 1..n : \A i \in (1..n) \ {j} : \A g, h \in FieldSet : ss[i][g] = ss[i][h]}

Example(i, s) == [f \in FieldSet |-> TokSeq(i, f, s[f])]

padding_value == 0

(***************************************************************************)
(* DataCollatorForPreference.torch_call                                    *)
(***************************************************************************)
\* trl.trainer.utils.pad: pads a list of 1-D tensors to their common maximum
pad(seqs, pad_val, padding_side) ==
    LET W == MaxOf({Len(seqs[i]) : i \in 1..Len(seqs)})
    IN  [i \in 1..Len(seqs) |->
            IF padding_side = "left"
            THEN Repeat(pad_val, W - Len(seqs[i])) \o seqs[i]
            ELSE seqs[i] \o Repeat(pad_val, W - Len(seqs[i]))]

Column(exs, f) == [i \in 1..Len(exs) |-> exs[i][f]]

MaskColumn(exs, f) == [i \in 1..Len(exs) |-> ones_like(exs[i][f])]

torch_call(exs) ==
    [prompt_input_ids |-> pad(Column(exs, "prompt_input_ids"), padding_value, "left"),
     prompt_attention_mask |-> pad(MaskColumn(exs, "prompt_input_ids"), 0, "left"),
     chosen_response_input_ids |-> pad(Column(exs, "chosen_response_input_ids"), padding_value, "right"),
     chosen_response_attention_mask |-> pad(MaskColumn(exs, "chosen_response_input_ids"), 0, "right"),
     rejected_response_input_ids |-> pad(Column(exs, "rejected_response_input_ids"), padding_value, "right"),
     rejected_response_attention_mask |-> pad(MaskColumn(exs, "rejected_response_input_ids"), 0, "right"),
     chosen_prompt_input_ids |-> pad(Column(exs, "chosen_prompt_input_ids"), padding_value, "left"),
     chosen_prompt_attention_mask |-> pad(MaskColumn(exs, "chosen_prompt_input_ids"), 0, "left"),
     rejected_prompt_input_ids |-> pad(Column(exs, "rejected_prompt_input_ids"), padding_value, "left"),
     rejected_prompt_attention_mask |-> pad(MaskColumn(exs, "rejected_prompt_input_ids"), 0, "left"),
     response_input_ids |-> pad(Column(exs, "response_input_ids"), padding_value, "right"),
     response_attention_mask |-> pad(MaskColumn(exs, "response_input_ids"), 0, "right")]

(***************************************************************************)
(* MultiDPOTrainer.concatenated_inputs                                     *)
(***************************************************************************)
\* trl.trainer.utils.pad_to_length: a tensor already as wide as `length` is
\* returned as it is, a narrower one gets pad_value appended to every row
pad_to_length(tensor, length, pad_value) ==
    IF Width(tensor) >= length THEN tensor
    ELSE [r \in 1..Len(tensor) |-> tensor[r] \o Repeat(pad_value, length - Len(tensor[r]))]

concatenated_inputs_swapped(b, pad_val) ==
    LET max_prompt_length == MaxOf({Width(b.prompt_input_ids), Width(b.chosen_prompt_input_ids),
                                    Width(b.rejected_prompt_input_ids)})
        max_completion_length == MaxOf({Width(b.chosen_response_input_ids),
                                        Width(b.rejected_response_input_ids),
                                        Width(b.response_input_ids)})
        P(t, v) == pad_to_length(t, max_prompt_length, v)
        C(t, v) == pad_to_length(t, max_completion_length, v)
    IN  [prompt_input_ids |->
            P(b.prompt_input_ids, pad_val) \o P(b.prompt_input_ids, pad_val)
            \o P(b.rejected_prompt_input_ids, pad_val) \o P(b.chosen_prompt_input_ids, pad_val),
         prompt_attention_mask |->
            P(b.prompt_attention_mask, 0) \o P(b.prompt_attention_mask, 0)
            \o P(b.rejected_prompt_attention_mask, 0) \o P(b.chosen_prompt_attention_mask, 0),
         completion_input_ids |->
            C(b.chosen_response_input_ids, pad_val) \o C(b.rejected_response_input_ids, pad_val)
            \o C(b.response_input_ids, pad_val) \o C(b.response_input_ids, pad_val),
         completion_attention_mask |->
            C(b.chosen_response_attention_mask, 0) \o C(b.rejected_response_attention_mask, 0)
            \o C(b.response_attention_mask, 0) \o C(b.response_attention_mask, 0)]

concatenated_inputs(b, pad_val) ==
    LET max_prompt_length == MaxOf({Width(b.prompt_input_ids), Width(b.chosen_prompt_input_ids),
                                    Width(b.rejected_prompt_input_ids)})
        max_completion_length == MaxOf({Width(b.chosen_response_input_ids),
                                        Width(b.rejected_response_input_ids),
                                        Width(b.response_input_ids)})
        P(t, v) == pad_to_length(t, max_prompt_length, v)
        C(t, v) == pad_to_length(t, max_completion_length, v)
    IN  [prompt_input_ids |->
            P(b.prompt_input_ids, pad_val) \o P(b.prompt_input_ids, pad_val)
            \o P(b.chosen_prompt_input_ids, pad_val) \o P(b.rejected_prompt_input_ids, pad_val),
         prompt_attention_mask |->
            P(b.prompt_attention_mask, 0) \o P(b.prompt_attention_mask, 0)
            \o P(b.chosen_prompt_attention_mask, 0) \o P(b.rejected_prompt_attention_mask, 0),
         completion_input_ids |->
            C(b.chosen_response_input_ids, pad_val) \o C(b.rejected_response_input_ids, pad_val)
            \o C(b.response_input_ids, pad_val) \o C(b.response_input_ids, pad_val),
         completion_attention_mask |->
            C(b.chosen_response_attention_mask, 0) \o C(b.rejected_response_attention_mask, 0)
            \o C(b.response_attention_mask, 0) \o C(b.response_attention_mask, 0)]

(***************************************************************************)
(* MultiDPOTrainer.concatenated_forward (decoder-only path;                *)
(* use_logits_to_keep, use_weighting and rpo_alpha at their defaults: off) *)
(***************************************************************************)
OnesIdx(m) == LET IsOne(j) == m[j] = 1 IN SelectSeq([j \in 1..Len(m) |-> j], IsOne)

ZerosIdx(m) == LET IsZero(j) == m[j] # 1 IN SelectSeq([j \in 1..Len(m) |-> j], IsZero)

Reorder(row, idx) == [k \in 1..Len(idx) |-> row[idx[k]]]

KeptWidth(mask) == IF mask = <<>> THEN 0 ELSE MaxOf({Len(OnesIdx(mask[r])) : r \in 1..Len(mask)})

\* trl.trainer.utils.flush_left, applied to one tensor: the real tokens of each
\* row (mask = 1) move to the front in their order, then the trailing columns
\* that are empty in every row are cut
flush_left(mask, t) ==
    first_cols([r \in 1..Len(t) |-> Reorder(t[r], OnesIdx(mask[r]) \o ZerosIdx(mask[r]))],
               KeptWidth(mask))

\* trl.trainer.utils.flush_right: the real tokens move to the end, then the
\* leading columns that are empty in every row are cut
flush_right(mask, t) ==
    last_cols([r \in 1..Len(t) |-> Reorder(t[r], ZerosIdx(mask[r]) \o OnesIdx(mask[r]))],
              KeptWidth(mask))

\* The language model followed by selective_log_softmax: the log-probability
\* the model gives to token `label` right after token `prev`.  The network is
\* outside the repository; it is an injective function of the two tokens.
TokenLogp(prev, label) == 0 - (3 * prev + label)

per_token_logps(input_ids, loss_mask) ==
    LET labels == roll_left(input_ids)
        lm == roll_left(loss_mask)
    IN  roll_right([r \in 1..Len(input_ids) |->
                      [j \in 1..Len(input_ids[r]) |->
                          IF lm[r][j] = 1 THEN TokenLogp(input_ids[r][j], labels[r][j]) ELSE 0]])

split_logps_swapped(all_logps, num_examples) ==
    [chosen_logps_dpo |-> SubSeq(all_logps, num_examples + 1, 2 * num_examples),
     rejected_logps_dpo |-> SubSeq(all_logps, 1, num_examples),
     chosen_logps_adpo |-> SubSeq(all_logps, 2 * num_examples + 1, 3 * num_examples),
     rejected_logps_adpo |-> SubSeq(all_logps, 3 * num_examples + 1, 4 * num_examples)]

\* lines 2022-2025: the four slices of all_logps
split_logps(all_logps, num_examples) ==
    [chosen_logps_dpo |-> SubSeq(all_logps, 1, num_examples),
     rejected_logps_dpo |-> SubSeq(all_logps, num_examples + 1, 2 * num_examples),
     chosen_logps_adpo |-> SubSeq(all_logps, 2 * num_examples + 1, 3 * num_examples),
     rejected_logps_adpo |-> SubSeq(all_logps, 3 * num_examples + 1, 4 * num_examples)]

\* lines 1858-1895: prompt and completion side by side, the loss mask over
\* the completion, then flush and truncate
assemble(b, maxlen, mode) ==
    LET cb == concatenated_inputs(b, padding_value)
        input_ids0 == cat1(cb.prompt_input_ids, cb.completion_input_ids)
        attention_mask0 == cat1(cb.prompt_attention_mask, cb.completion_attention_mask)
        loss_mask0 == cat1(zeros_like(cb.prompt_attention_mask), cb.completion_attention_mask)
        truncating == maxlen # None /\ maxlen[1] < Width(attention_mask0)
        \* keep_end: flush right, cut on the left
        am_r == last_cols(flush_right(attention_mask0, attention_mask0), maxlen[1])
        ids_r == last_cols(flush_right(attention_mask0, input_ids0), maxlen[1])
        lm_r == last_cols(flush_right(attention_mask0, loss_mask0), maxlen[1])
        attention_mask ==
            IF truncating /\ mode = "keep_start"
            THEN first_cols(flush_left(attention_mask0, attention_mask0), maxlen[1])
            ELSE IF truncating THEN flush_left(am_r, am_r)
            ELSE flush_left(attention_mask0, attention_mask0)
        input_ids ==
            IF truncating /\ mode = "keep_start"
            THEN first_cols(flush_left(attention_mask0, input_ids0), maxlen[1])
            ELSE IF truncating THEN flush_left(am_r, ids_r)
            ELSE flush_left(attention_mask0, input_ids0)
        loss_mask ==
            IF truncating /\ mode = "keep_start"
            THEN first_cols(flush_left(attention_mask0, loss_mask0), maxlen[1])
            ELSE IF truncating THEN flush_left(am_r, lm_r)
            ELSE flush_left(attention_mask0, loss_mask0)
    IN  IF truncating /\ mode \notin {"keep_start", "keep_end"}
        THEN [status |-> "ValueError", message |-> "Unknown truncation mode",
              value_named |-> mode, alternatives_named |-> {"keep_end", "keep_start"}]
        ELSE [status |-> "ok",
              input_ids |-> input_ids,
              attention_mask |-> attention_mask,
              loss_mask |-> loss_mask]

RECURSIVE Concat(_)
Concat(seqs) == IF seqs = <<>> THEN <<>> ELSE Head(seqs) \o Concat(Tail(seqs))

\* lines 1912-1913: t[attention_mask.bool()].unsqueeze(0), the real tokens of
\* all rows in one row
flatten(t, attention_mask) ==
    <<Concat([r \in 1..Len(t) |-> Reorder(t[r], OnesIdx(attention_mask[r]))])>>

position_ids_without_restart(attention_mask) ==
    <<[k \in 1..Len(flatten(attention_mask, attention_mask)[1]) |-> k - 1]>>

\* attention_mask.cumsum(1)
cumsum(t) == [r \in 1..Len(t) |-> [j \in 1..Len(t[r]) |-> SumSeq(SubSeq(t[r], 1, j))]]

\* line 1914: attention_mask.cumsum(1)[attention_mask.bool()].unsqueeze(0) - 1
position_ids(attention_mask) ==
    LET flat == flatten(cumsum(attention_mask), attention_mask)
    IN  <<[k \in 1..Len(flat[1]) |-> flat[1][k] - 1]>>

\* lines 1949-1954: per_token_logps_[attention_mask.bool()] = per_token_logps
unflatten(flat, attention_mask) ==
    LET Ones(r) == Len(OnesIdx(attention_mask[r]))
        Offset(r) == SumSeq([q \in 1..(r - 1) |-> Ones(q)])
        Rank(r, j) == Len(OnesIdx(SubSeq(attention_mask[r], 1, j)))
    IN  [r \in 1..Len(attention_mask) |->
            [j \in 1..Len(attention_mask[r]) |->
                IF attention_mask[r][j] = 1 THEN flat[1][Offset(r) + Rank(r, j)] ELSE 0]]

\* lines 1908-1954: the per-token log-probabilities, one row per sequence
row_token_logps(input_ids, attention_mask, loss_mask, pf) ==
    IF pf
    THEN unflatten(per_token_logps(flatten(input_ids, attention_mask),
                                   flatten(loss_mask, attention_mask)),
                   attention_mask)
    ELSE per_token_logps(input_ids, loss_mask)

\* line 1924: the loss mask the rest of the method works with, rolled one to
\* the left; in padding-free mode it is the single flattened row
rolled_loss_mask(attention_mask, loss_mask, pf) ==
    roll_left(IF pf THEN flatten(loss_mask, attention_mask) ELSE loss_mask)

RowSums(t) == [r \in 1..Len(t) |-> SumSeq(t[r])]

\* torch: 0 / 0
nan == 0 - 1000000000

\* a / b of torch for a vector a and a vector b of the same length or of
\* length 1 (broadcast)
torch_div(a, b) ==
    [r \in 1..Len(a) |->
        LET d == IF Len(b) = 1 THEN b[1] ELSE b[r]
        IN  IF d = 0 THEN nan ELSE RDiv(a[r], d)]

\* lines 1992-1993: all_logps / loss_mask.sum(-1)
ipo_normalise(all_logps, lm) == torch_div(all_logps, RowSums(lm))

\* the length two shapes [m] and [n] broadcast to, None when they do not
broadcast(m, n) ==
    IF m = n THEN <<m>> ELSE IF m = 1 THEN <<n>> ELSE IF n = 1 THEN <<m>> ELSE None

\* lines 1995-2015: length desensitisation.  The shapes are followed as
\* torch follows them; an operation on shapes that do not broadcast raises.
length_desensitise(ptl, lm, num_examples, alpha) ==
    LET completion_lengths == RowSums(lm)
        n_chosen == IF num_examples < Len(lm) THEN num_examples ELSE Len(lm)
        chosen_lengths == SubSeq(completion_lengths, 1, n_chosen)
        rejected_lengths == SubSeq(completion_lengths, n_chosen + 1, Len(lm))
        min_shape == broadcast(Len(chosen_lengths), Len(rejected_lengths))
        At(v, i) == IF Len(v) = 1 THEN v[1] ELSE v[i]
        public_half == [i \in 1..min_shape[1] |->
                           IF At(chosen_lengths, i) < At(rejected_lengths, i)
                           THEN At(chosen_lengths, i) ELSE At(rejected_lengths, i)]
        public_lengths == public_half \o public_half
        Front(r) == SumSeq([j \in 1..Len(ptl[r]) |->
                              IF j - 1 < At(public_lengths, r)
                                 /\ j - 1 < At(completion_lengths, r)
                              THEN ptl[r][j] ELSE 0])
        Rear(r) == SumSeq([j \in 1..Len(ptl[r]) |->
                             IF j - 1 >= At(public_lengths, r)
                                /\ j - 1 < At(completion_lengths, r)
                             THEN ptl[r][j] ELSE 0])
    IN  IF min_shape = None
        THEN [status |-> "RuntimeError", message |-> "size mismatch", at |-> "torch.min"]
        ELSE IF broadcast(Len(ptl), Len(public_lengths)) = None
                \/ broadcast(Len(ptl), Len(completion_lengths)) = None
        THEN [status |-> "RuntimeError", message |-> "size mismatch", at |-> "ld_mask"]
        ELSE [status |-> "ok",
              all_logps |-> [r \in 1..Len(ptl) |-> Front(r) + FMul(alpha, Rear(r))]]

\* lines 1956-2025 on the assembled batch
score(asm, ptl, lm, num_examples, self, is_ref) ==
    LET raw == RowSums([r \in 1..Len(ptl) |-> Tail(ptl[r])])
        normalised == IF self.loss_type = "ipo" THEN ipo_normalise(raw, lm) ELSE raw
        ld == IF self.ld_alpha # None /\ ~is_ref
              THEN length_desensitise(ptl, lm, num_examples, self.ld_alpha[1])
              ELSE [status |-> "ok", all_logps |-> normalised]
    IN  IF ld.status # "ok" THEN ld
        ELSE asm @@ [rolled_loss_mask |-> lm, all_logps |-> ld.all_logps]
                 @@ split_logps(ld.all_logps, num_examples)

\* MultiDPOTrainer.concatenated_forward; `self` holds the attributes of the
\* trainer the method reads
scored(asm, num_examples, self, is_ref) ==
    IF asm.status # "ok" THEN asm
    ELSE score(IF self.padding_free
               THEN asm @@ [position_ids |-> position_ids(asm.attention_mask)]
               ELSE asm,
               row_token_logps(asm.input_ids, asm.attention_mask, asm.loss_mask,
                               self.padding_free),
               rolled_loss_mask(asm.attention_mask, asm.loss_mask, self.padding_free),
               num_examples, self, is_ref)

\* lines 1847-1856 and 1941-1945 for an encoder-decoder model: the logits of
\* decoder position j score labels[j], the decoder reading the completion
\* shifted one to the right behind its start token (the pad token); the values
\* are then rolled one to the right like those of a decoder-only model
seq2seq_token_logps(labels, loss_mask) ==
    roll_right([r \in 1..Len(labels) |->
                  [j \in 1..Len(labels[r]) |->
                      IF loss_mask[r][j] = 1
                      THEN TokenLogp(IF j = 1 THEN padding_value ELSE labels[r][j - 1],
                                     labels[r][j])
                      ELSE 0]])

\* lines 1846-1856: what the encoder-decoder branch hands to the rest of the
\* method: the model reads the prompts, the loss mask is the completion mask
seq2seq_scored(cb, num_examples, self, is_ref) ==
    score([status |-> "ok", input_ids |-> cb.prompt_input_ids,
           attention_mask |-> cb.prompt_attention_mask,
           loss_mask |-> cb.completion_attention_mask],
          seq2seq_token_logps(cb.completion_input_ids, cb.completion_attention_mask),
          cb.completion_attention_mask, num_examples, self, is_ref)

concatenated_forward(b, self, is_ref) ==
    IF self.is_encoder_decoder
    THEN seq2seq_scored(concatenated_inputs(b, padding_value),
                        Len(b.prompt_input_ids), self, is_ref)
    ELSE scored(assemble(b, self.max_length, self.truncation_mode),
                Len(b.prompt_input_ids), self, is_ref)
(***************************************************************************)
(* The elementary functions of torch, in fixed-point arithmetic            *)
(***************************************************************************)
\* the tables hold f(x) for x = TableMin, TableMin + TableStep, ..., TableMax
TableMin == 0 - 8000

TableMax == 8000

TableStep == 100

LogSigmoidTable ==
    <<-8000, -7900, -7800, -7700, -7601, -7501, -7401, -7301, -7201, -7101, -7001, -6901,
       -6801, -6701, -6601, -6502, -6402, -6302, -6202, -6102, -6002, -5903, -5803, -5703,
       -5604, -5504, -5405, -5305, -5206, -5106, -5007, -4907, -4808, -4709, -4610, -4511,
       -4412, -4313, -4215, -4116, -4018, -3920, -3822, -3724, -3627, -3530, -3433, -3336,
       -3240, -3144, -3049, -2954, -2859, -2765, -2672, -2579, -2487, -2396, -2305, -2216,
       -2127, -2039, -1953, -1868, -1784, -1701, -1620, -1541, -1463, -1387, -1313, -1241,
       -1171, -1103, -1037, -974, -913, -854, -798, -744, -693, -644, -598, -554,
       -513, -474, -437, -403, -371, -341, -313, -287, -263, -241, -220, -201,
       -184, -168, -153, -139, -127, -116, -105, -96, -87, -79, -72, -65,
       -59, -54, -49, -44, -40, -36, -33, -30, -27, -24, -22, -20,
       -18, -16, -15, -13, -12, -11, -10, -9, -8, -7, -7, -6,
       -6, -5, -5, -4, -4, -3, -3, -3, -2, -2, -2, -2,
       -2, -2, -1, -1, -1, -1, -1, -1, -1, -1, -1, -1,
       -1, 0, 0, 0, 0>>

SigmoidTable ==
    <<0, 0, 0, 0, 1, 1, 1, 1, 1, 1, 1, 1,
       1, 1, 1, 2, 2, 2, 2, 2, 2, 3, 3, 3,
       4, 4, 4, 5, 5, 6, 7, 7, 8, 9, 10, 11,
       12, 13, 15, 16, 18, 20, 22, 24, 27, 29, 32, 36,
       39, 43, 47, 52, 57, 63, 69, 76, 83, 91, 100, 109,
       119, 130, 142, 154, 168, 182, 198, 214, 231, 250, 269, 289,
       310, 332, 354, 378, 401, 426, 450, 475, 500, 525, 550, 574,
       599, 622, 646, 668, 690, 711, 731, 750, 769, 786, 802, 818,
       832, 846, 858, 870, 881, 891, 900, 909, 917, 924, 931, 937,
       943, 948, 953, 957, 961, 964, 968, 971, 973, 976, 978, 980,
       982, 984, 985, 987, 988, 989, 990, 991, 992, 993, 993, 994,
       995, 995, 996, 996, 996, 997, 997, 997, 998, 998, 998, 998,
       998, 998, 999, 999, 999, 999, 999, 999, 999, 999, 999, 999,
       999, 1000, 1000, 1000, 1000>>

ExpTable ==
    <<0, 0, 0, 0, 1, 1, 1, 1, 1, 1, 1, 1,
       1, 1, 1, 2, 2, 2, 2, 2, 2, 3, 3, 3,
       4, 4, 5, 5, 6, 6, 7, 7, 8, 9, 10, 11,
       12, 14, 15, 17, 18, 20, 22, 25, 27, 30, 33, 37,
       41, 45, 50, 55, 61, 67, 74, 82, 91, 100, 111, 122,
       135, 150, 165, 183, 202, 223, 247, 273, 301, 333, 368, 407,
       449, 497, 549, 607, 670, 741, 819, 905, 1000, 1105, 1221, 1350,
       1492, 1649, 1822, 2014, 2226, 2460, 2718, 3004, 3320, 3669, 4055, 4482,
       4953, 5474, 6050, 6686, 7389, 8166, 9025, 9974, 11023, 12182, 13464, 14880,
       16445, 18174, 20086, 22198, 24533, 27113, 29964, 33115, 36598, 40447, 44701, 49402,
       54598, 60340, 66686, 73700, 81451, 90017, 99484, 109947, 121510, 134290, 148413, 164022,
       181272, 200337, 221406, 244692, 270426, 298867, 330300, 365037, 403429, 445858, 492749, 544572,
       601845, 665142, 735095, 812406, 897847, 992275, 1096633, 1211967, 1339431, 1480300, 1635984, 1808042,
       1998196, 2208348, 2440602, 2697282, 2980958>>

\* linear interpolation in a table, the argument clamped to the table's range
TableLookup(tab, x) ==
    LET xc == IF x < TableMin THEN TableMin ELSE IF x > TableMax THEN TableMax ELSE x
        off == xc - TableMin
        k == off \div TableStep
        lo == tab[k + 1]
        hi == tab[IF k + 2 > Len(tab) THEN Len(tab) ELSE k + 2]
    IN  lo + RDiv((hi - lo) * (off % TableStep), TableStep)

\* F.logsigmoid: log(1 / (1 + exp(-x))); x itself below the table, 0 above it
logsigmoid(x) ==
    IF x < TableMin THEN x ELSE IF x > TableMax THEN 0 ELSE TableLookup(LogSigmoidTable, x)

\* torch.sigmoid
sigmoid(x) == TableLookup(SigmoidTable, x)

\* F.softplus: log(1 + exp(x))
softplus(x) == 0 - logsigmoid(0 - x)

\* torch.exp
exp(x) == TableLookup(ExpTable, x)

\* trl.trainer.utils.cap_exp: exp with the exponent clamped from above
cap_exp(x) == exp(x)

\* math.log at the four arguments exo_pair can pass: 1 - eps and eps for
\* eps = 0.001 (the floor) and eps = 0.1
log(v) ==
    CASE v = 999 -> 0 - 1
      [] v = 1 -> 0 - 6908
      [] v = 900 -> 0 - 105
      [] v = 100 -> 0 - 2303

relu(x) == IF x > 0 THEN x ELSE 0

RECURSIVE Insert(_, _)
Insert(x, s) ==
    IF s = <<>> THEN <<x>>
    ELSE IF x <= Head(s) THEN <<x>> \o s
    ELSE <<Head(s)>> \o Insert(x, Tail(s))

sort_leaving_order(s) == s

\* torch.sort(t, dim=0): ascending
RECURSIVE sort(_)
sort(s) == IF s = <<>> THEN <<>> ELSE Insert(Head(s), sort(Tail(s)))

\* tensor.mean() of a non-empty vector
mean(s) == RDiv(SumSeq(s), Len(s))

(***************************************************************************)
(* MultiDPOTrainer.dpo_loss and multidpo_loss                              *)
(***************************************************************************)
beta == 100

alpha_coef == 1000

discopop_tau == 50

SupportedLossTypes ==
    {"sigmoid", "hinge", "ipo", "exo_pair", "nca_pair", "robust", "bco_pair", "sppo_hard",
     "aot", "aot_pair", "discopop", "apo_zero", "apo_down"}

\* trl.trainer.utils.RunningMoments.update with one scalar: the running mean
\* of all the values seen so far
running_update(rm, x) ==
    [count |-> rm.count + 1, mean |-> rm.mean + RDiv(x - rm.mean, rm.count + 1)]

base_logits_with_reference(c, r, rc, rr, rf) == (c - r) - (rc - rr)

\* lines 1436-1444: the logits without an f-divergence
base_logits(c, r, rc, rr, rf) == (c - r) - (IF rf THEN 0 ELSE rc - rr)

\* -logsigmoid(beta x)(1 - eps) - logsigmoid(-beta x) eps, shared by sigmoid,
\* aot_pair and aot
sigmoid_loss(x, eps) ==
    FMul(0 - logsigmoid(FMul(beta, x)), SCALE - eps) - FMul(logsigmoid(0 - FMul(beta, x)), eps)

sppo_hard_losses_by_rank(chosen_logps, rejected_logps, ref_chosen_logps, ref_rejected_logps) ==
    LET a == sort([i \in 1..Len(chosen_logps) |-> chosen_logps[i] - ref_chosen_logps[i]])
        b == sort([i \in 1..Len(chosen_logps) |-> rejected_logps[i] - ref_rejected_logps[i]])
    IN  [i \in 1..Len(chosen_logps) |->
            FMul(a[i] - FDiv(SCALE \div 2, beta), a[i] - FDiv(SCALE \div 2, beta))
            + FMul(b[i] + FDiv(SCALE \div 2, beta), b[i] + FDiv(SCALE \div 2, beta))]

\* lines 1499-1506: sppo_hard, element-wise on the batch
sppo_hard_losses(chosen_logps, rejected_logps, ref_chosen_logps, ref_rejected_logps) ==
    LET a == [i \in 1..Len(chosen_logps) |-> chosen_logps[i] - ref_chosen_logps[i]]
        b == [i \in 1..Len(chosen_logps) |-> rejected_logps[i] - ref_rejected_logps[i]]
    IN  [i \in 1..Len(chosen_logps) |->
            FMul(a[i] - FDiv(SCALE \div 2, beta), a[i] - FDiv(SCALE \div 2, beta))
            + FMul(b[i] + FDiv(SCALE \div 2, beta), b[i] + FDiv(SCALE \div 2, beta))]

\* st: the trainer attributes dpo_loss reads and may write
\*     [loss_type, label_smoothing, reference_free, f_divergence_type, running]
dpo_loss(chosen_logps, rejected_logps, ref_chosen_logps, ref_rejected_logps, st) ==
    LET I == 1..Len(chosen_logps)
        nrf == IF st.reference_free THEN 0 ELSE 1
        chosen_logratios == [i \in I |-> chosen_logps[i] - nrf * ref_chosen_logps[i]]
        rejected_logratios == [i \in I |-> rejected_logps[i] - nrf * ref_rejected_logps[i]]
        logits ==
            IF st.f_divergence_type = "alpha_divergence"
            THEN [i \in I |->
                    FDiv(cap_exp(FMul(rejected_logratios[i], 0 - alpha_coef))
                         - cap_exp(FMul(chosen_logratios[i], 0 - alpha_coef)), alpha_coef)]
            ELSE [i \in I |->
                    base_logits(chosen_logps[i], rejected_logps[i], ref_chosen_logps[i],
                                ref_rejected_logps[i], st.reference_free)
                    - (IF st.f_divergence_type = "js_divergence"
                       THEN softplus(chosen_logratios[i]) - softplus(rejected_logratios[i])
                       ELSE 0)]
        \* exo_pair writes self.label_smoothing when it is 0
        eps == IF st.loss_type = "exo_pair" /\ st.label_smoothing = 0 THEN 1 ELSE st.label_smoothing
        \* the branches that recompute the logratios from the reference
        ref_cl == [i \in I |-> chosen_logps[i] - ref_chosen_logps[i]]
        ref_rl == [i \in I |-> rejected_logps[i] - ref_rejected_logps[i]]
        \* bco_pair
        bco_rewards == mean([i \in I |-> FMul(beta, ref_cl[i])] \o [i \in I |-> FMul(beta, ref_rl[i])])
        new_running == IF st.loss_type = "bco_pair" THEN running_update(st.running, bco_rewards)
                       ELSE st.running
        delta == new_running.mean
        \* aot_pair and aot
        aot_pair_delta == LET cs == sort(ref_cl)
                              rs == sort(ref_rl)
                          IN  [i \in I |-> cs[i] - rs[i]]
        aot_delta == LET ps == sort([i \in I |-> chosen_logps[i] - rejected_logps[i]])
                         qs == sort([i \in I |-> ref_chosen_logps[i] - ref_rejected_logps[i]])
                     IN  [i \in I |-> ps[i] - qs[i]]
        \* discopop
        dp_logits == [i \in I |-> FMul(beta, (chosen_logps[i] - rejected_logps[i])
                                              - (ref_chosen_logps[i] - ref_rejected_logps[i]))]
        loss(i) ==
            LET x == FMul(beta, logits[i])
            IN  CASE st.loss_type = "sigmoid" -> sigmoid_loss(logits[i], eps)
                  [] st.loss_type = "robust" ->
                        FDiv(FMul(0 - logsigmoid(x), SCALE - eps) + FMul(logsigmoid(0 - x), eps),
                             SCALE - 2 * eps)
                  [] st.loss_type = "exo_pair" ->
                        FMul(sigmoid(x), logsigmoid(x) - log(SCALE - eps))
                        + FMul(sigmoid(0 - x), logsigmoid(0 - x) - log(eps))
                  [] st.loss_type = "hinge" -> relu(SCALE - x)
                  [] st.loss_type = "ipo" ->
                        LET d == logits[i] - FDiv(SCALE, 2 * beta) IN FMul(d, d)
                  [] st.loss_type = "bco_pair" ->
                        (0 - logsigmoid(FMul(beta, ref_cl[i]) - delta))
                        - logsigmoid(0 - (FMul(beta, ref_rl[i]) - delta))
                  [] st.loss_type = "sppo_hard" ->
                        sppo_hard_losses(chosen_logps, rejected_logps,
                                         ref_chosen_logps, ref_rejected_logps)[i]
                  [] st.loss_type = "nca_pair" ->
                        (0 - logsigmoid(FMul(ref_cl[i], beta)))
                        - FMul(SCALE \div 2, logsigmoid(0 - FMul(ref_cl[i], beta)))
                        - FMul(SCALE \div 2, logsigmoid(0 - FMul(ref_rl[i], beta)))
                  [] st.loss_type = "aot_pair" -> sigmoid_loss(aot_pair_delta[i], eps)
                  [] st.loss_type = "aot" -> sigmoid_loss(aot_delta[i], eps)
                  [] st.loss_type = "apo_zero" ->
                        (SCALE - sigmoid(FMul(beta, chosen_logratios[i])))
                        + sigmoid(FMul(beta, rejected_logratios[i]))
                  [] st.loss_type = "apo_down" ->
                        sigmoid(FMul(beta, chosen_logratios[i]))
                        + (SCALE - sigmoid(FMul(beta, chosen_logratios[i] - rejected_logratios[i])))
                  [] st.loss_type = "discopop" ->
                        LET m == sigmoid(FDiv(dp_logits[i], discopop_tau))
                        IN  FMul(0 - logsigmoid(dp_logits[i]), SCALE - m)
                            + FMul(exp(0 - dp_logits[i]), m)
    IN  IF st.loss_type \notin SupportedLossTypes
        THEN [status |-> "ValueError",
              message |-> "Unknown loss type",
              valid_set_named |-> SupportedLossTypes,
              logits |-> logits,
              label_smoothing |-> st.label_smoothing,
              running |-> st.running]
        ELSE [status |-> "ok",
              logits |-> logits,
              losses |-> [i \in I |-> loss(i)],
              chosen_rewards |-> [i \in I |-> FMul(beta, chosen_logps[i] - ref_chosen_logps[i])],
              rejected_rewards |-> [i \in I |-> FMul(beta, rejected_logps[i] - ref_rejected_logps[i])],
              label_smoothing |-> eps,
              running |-> new_running]

combine_swapped(lam, x, y) == FMul(x, SCALE - lam) + FMul(y, lam)

\* lines 1361, 1387, 1388: lambda_weight * x + (1 - lambda_weight) * y
combine(lam, x, y) == FMul(x, lam) + FMul(y, SCALE - lam)

\* lines 1385-1390: the combined losses and rewards of multidpo_loss, from
\* what dpo_loss returned for the dpo pair (d) and for the adpo pair (a)
combine_losses(d, a, lam) ==
    IF d.status # "ok" THEN d
    ELSE IF a.status # "ok" THEN a
    ELSE [status |-> "ok",
          dpo_logits |-> d.logits,
          adpo_logits |-> a.logits,
          dpo_losses |-> d.losses,
          adpo_losses |-> a.losses,
          losses |-> [i \in 1..Len(d.losses) |-> combine(lam, d.losses[i], a.losses[i])],
          chosen_rewards |->
              [i \in 1..Len(d.losses) |->
                  combine(lam, d.chosen_rewards[i], a.chosen_rewards[i])],
          rejected_rewards |->
              [i \in 1..Len(d.losses) |->
                  combine(lam, d.rejected_rewards[i], a.rejected_rewards[i])],
          label_smoothing |-> a.label_smoothing,
          running |-> a.running]

adpo_on_trainer_before_dpo(d, pol, ref, st, lam) ==
    combine_losses(d,
                   dpo_loss(pol.chosen_logps_adpo, pol.rejected_logps_adpo,
                            ref.chosen_logps_adpo, ref.rejected_logps_adpo, st),
                   lam)

\* lines 1373-1383: the dpo_loss call on the adpo pair, made on the trainer
\* as the call on the dpo pair (which returned d) left it
adpo_after_dpo(d, pol, ref, st, lam) ==
    combine_losses(d,
                   dpo_loss(pol.chosen_logps_adpo, pol.rejected_logps_adpo,
                            ref.chosen_logps_adpo, ref.rejected_logps_adpo,
                            [st EXCEPT !.label_smoothing = d.label_smoothing,
                                       !.running = d.running]),
                   lam)

\* pol, ref: records of the four groups; lam: self.lambda_weight
multidpo_loss(pol, ref, st, lam) ==
    adpo_after_dpo(dpo_loss(pol.chosen_logps_dpo, pol.rejected_logps_dpo,
                            ref.chosen_logps_dpo, ref.rejected_logps_dpo, st),
                   pol, ref, st, lam)

reward_accuracies_ge(chosen_rewards, rejected_rewards) ==
    [i \in 1..Len(chosen_rewards) |-> IF chosen_rewards[i] >= rejected_rewards[i] THEN SCALE ELSE 0]

\* line 2089: (chosen_rewards > rejected_rewards).float()
reward_accuracies(chosen_rewards, rejected_rewards) ==
    [i \in 1..Len(chosen_rewards) |-> IF chosen_rewards[i] > rejected_rewards[i] THEN SCALE ELSE 0]

\* lines 2089-2163 of get_batch_loss_metrics: the metrics derived from the
\* rewards multidpo_loss returned (out) and the policy log-probabilities
loss_metrics(out, pol) ==
    IF out.status # "ok" THEN [out |-> out, metrics |-> None]
    ELSE [out |-> out,
          metrics |->
            [rewards_chosen |-> mean(out.chosen_rewards),
             rewards_rejected |-> mean(out.rejected_rewards),
             rewards_accuracies |->
                mean(reward_accuracies(out.chosen_rewards, out.rejected_rewards)),
             rewards_margins |->
                mean([i \in 1..Len(out.losses) |->
                        out.chosen_rewards[i] - out.rejected_rewards[i]]),
             dpo_accuracies |->
                mean([i \in 1..Len(out.losses) |->
                        IF pol.chosen_logps_dpo[i] > pol.rejected_logps_dpo[i]
                        THEN SCALE ELSE 0]),
             adpo_accuracies |->
                mean([i \in 1..Len(out.losses) |->
                        IF pol.chosen_logps_adpo[i] > pol.rejected_logps_adpo[i]
                        THEN SCALE ELSE 0]),
             logps_chosen_dpo |-> mean(pol.chosen_logps_dpo),
             logps_rejected_dpo |-> mean(pol.rejected_logps_dpo),
             logps_chosen_adpo |-> mean(pol.chosen_logps_adpo),
             logps_rejected_adpo |-> mean(pol.rejected_logps_adpo),
             loss |-> mean(out.losses)]]

\* lines 2084-2088 of get_batch_loss_metrics: the multidpo_loss call
batch_loss_metrics(pol, ref, st, lam) == loss_metrics(multidpo_loss(pol, ref, st, lam), pol)
(***************************************************************************)
(* Dataset preparation                                                     *)
(***************************************************************************)
MultiDpoKeys ==
    {"prompt", "chosen_response", "rejected_response", "chosen_prompt", "rejected_prompt",
     "response"}

StandardDpoKeys == {"prompt", "chosen", "rejected"}

AllKeys == MultiDpoKeys \cup StandardDpoKeys

PromptKeys == {"prompt", "chosen_prompt", "rejected_prompt"}

\* the column tokenize_row returns for a key
ColumnOf ==
    [prompt |-> "prompt_input_ids",
     chosen_response |-> "chosen_response_input_ids",
     rejected_response |-> "rejected_response_input_ids",
     chosen_prompt |-> "chosen_prompt_input_ids",
     rejected_prompt |-> "rejected_prompt_input_ids",
     response |-> "response_input_ids",
     chosen |-> "chosen_input_ids",
     rejected |-> "rejected_input_ids"]

\* tokenizer.bos_token_id and tokenizer.eos_token_id
bos_token_id == 1

eos_token_id == 2

\* Python's s[-n:] for n >= 0: the last n entries, and all of s for n = 0,
\* since -0 is 0
slice_from_minus(s, n) ==
    IF n = 0 \/ n >= Len(s) THEN s ELSE SubSeq(s, Len(s) - n + 1, Len(s))

\* Python's s[:n] for n >= 0
slice_to(s, n) == IF n >= Len(s) THEN s ELSE SubSeq(s, 1, n)

\* lines 808-819, 849-856: a prompt gets bos and eos when add_special_tokens
\* is set, a response always gets eos
with_special_tokens(row, key, add_special) ==
    IF key \in PromptKeys
    THEN IF add_special THEN <<bos_token_id>> \o row[key] \o <<eos_token_id>> ELSE row[key]
    ELSE row[key] \o <<eos_token_id>>

\* lines 821-832, 858-863
truncated(ids, key, max_prompt, max_completion) ==
    IF key \in PromptKeys
    THEN IF max_prompt = None THEN ids ELSE slice_from_minus(ids, max_prompt[1])
    ELSE IF max_completion = None THEN ids ELSE slice_to(ids, max_completion[1])

\* the columns tokenize_row returns for the keys it reads
tokenized_columns(row, keys, max_prompt, max_completion, add_special) ==
    [c \in {ColumnOf[k] : k \in keys} |->
        LET key == CHOOSE k \in keys : ColumnOf[k] = c
        IN  truncated(with_special_tokens(row, key, add_special), key,
                      max_prompt, max_completion)]

\* tokenize_row on a row; row[key] is the token ids the tokenizer gives the
\* text under `key`.  Returns the format it takes the row for and the columns
\* with their ids, or the ValueError it raises
tokenize_row(row, max_prompt, max_completion, add_special) ==
    LET is_multidpo_format == MultiDpoKeys \subseteq DOMAIN row
        is_standard_dpo_format == StandardDpoKeys \subseteq DOMAIN row
    IN  IF is_multidpo_format
        THEN [status |-> "ok",
              format |-> "multidpo",
              columns |-> {ColumnOf[k] : k \in MultiDpoKeys},
              ids |-> tokenized_columns(row, MultiDpoKeys, max_prompt, max_completion,
                                        add_special)]
        ELSE IF is_standard_dpo_format
        THEN [status |-> "ok",
              format |-> "standard_dpo",
              columns |-> {ColumnOf[k] : k \in StandardDpoKeys},
              ids |-> tokenized_columns(row, StandardDpoKeys, max_prompt, max_completion,
                                        add_special)]
        ELSE [status |-> "ValueError",
              message |-> "Invalid dataset format",
              expected |-> {MultiDpoKeys, StandardDpoKeys},
              got_keys |-> DOMAIN row]

\* a row with the given keys and a one-token text under each
OneTokenRow(keys) == [k \in keys |-> <<3>>]

\* Dataset.map(function, remove_columns=...) on a map-style dataset whose rows
\* all have the keys `column_names`: the columns to remove are looked up in
\* the dataset before the function is applied to any row
dataset_map(column_names, row_result, remove_columns) ==
    IF ~(remove_columns \subseteq column_names)
    THEN [status |-> "ValueError",
          message |-> "Column to remove not in the dataset",
          expected |-> {},
          got_keys |-> column_names]
    ELSE IF row_result.status # "ok"
    THEN row_result
    ELSE [status |-> "ok",
          format |-> row_result.format,
          columns |-> (column_names \cup row_result.columns) \ remove_columns]

\* _prepare_dataset on a dataset with the columns `column_names`; whether it
\* succeeds and which columns it leaves depend on the keys of the rows only
prepare_dataset(column_names) ==
    LET multidpo_keys == MultiDpoKeys \ {"prompt"}
        standard_dpo_keys == {"chosen", "rejected"}
        is_multidpo_format == multidpo_keys \subseteq column_names
        columns_to_remove == IF is_multidpo_format
                             THEN multidpo_keys \cup {"prompt"}
                             ELSE standard_dpo_keys
    IN  dataset_map(column_names, tokenize_row(OneTokenRow(column_names), None, None, FALSE),
                    columns_to_remove)

(***************************************************************************)
(* Datasets of the trainer                                                 *)
(***************************************************************************)
MaxPassed == 2         \* datasets a caller passes to get_eval_dataloader
MaxLoaderCalls == 3    \* get_train_dataloader and get_eval_dataloader calls
MaxSteps == 2          \* training and evaluation steps

RefColumns ==
    {"ref_chosen_logps_dpo", "ref_rejected_logps_dpo", "ref_chosen_logps_adpo",
     "ref_rejected_logps_adpo"}

TrainId == [kind |-> "train", k |-> 0]

EvalId == [kind |-> "eval", k |-> 0]

PassedIds == {[kind |-> "passed", k |-> i] : i \in 1..MaxPassed}

DatasetIds == {TrainId, EvalId} \cup PassedIds

\* a tokenized dataset: which one it is and the reference columns it carries
Dataset(id, cols) == [id |-> id, ref_columns |-> cols]

\* no dataset (Python's None where a dataset is expected)
NoDataset == Dataset([kind |-> "none", k |-> 0], {})

\* Dataset.add_column for the four reference columns: a new dataset, the
\* one it is called on stays as it was
add_ref_columns(ds) == Dataset(ds.id, ds.ref_columns \cup RefColumns)

NoError == [status |-> "ok"]


(***************************************************************************)
(* MultiDPOTrainer.store_metrics and MultiDPOTrainer.log                   *)
(***************************************************************************)
Phases == {"train", "eval"}

\* line 497: defaultdict(lambda: defaultdict(list)), nothing stored
NoMetrics == [k \in {} |-> <<>>]

EmptyStore == [p \in Phases |-> NoMetrics]

MultiDPOTrainer_log_clearing_all(store, lg) ==
    LET train_eval == IF "loss" \in DOMAIN lg THEN "train" ELSE "eval"
        stored == store[train_eval]
    IN  [logs |-> [key \in DOMAIN stored |-> mean(stored[key])] @@ lg,
         stored_metrics |-> EmptyStore]

\* lines 2275-2277: every value is appended to the list of its phase and key
store_metrics(store, m, train_eval) ==
    LET stored == store[train_eval]
    IN  [store EXCEPT ![train_eval] =
            [key \in DOMAIN stored \cup DOMAIN m |->
                (IF key \in DOMAIN stored THEN stored[key] ELSE <<>>)
                \o (IF key \in DOMAIN m THEN <<m[key]>> ELSE <<>>)]]

\* lines 2342-2348: the phase is read off the record; the mean of every
\* stored list of the phase is written into the record, the phase's store is
\* deleted and the record goes on to Trainer.log
MultiDPOTrainer_log(store, lg) ==
    LET train_eval == IF "loss" \in DOMAIN lg THEN "train" ELSE "eval"
        stored == store[train_eval]
    IN  [logs |-> [key \in DOMAIN stored |-> mean(stored[key])] @@ lg,
         stored_metrics |-> [store EXCEPT ![train_eval] = NoMetrics]]

\* the <<key, value>> pairs of a metrics dict, one per key
RECURSIVE MetricPairsOf(_, _)
MetricPairsOf(m, keys) ==
    IF keys = {} THEN <<>>
    ELSE LET key == CHOOSE k \in keys : TRUE
         IN  <<(<<key, m[key]>>)>> \o MetricPairsOf(m, keys \ {key})

MetricPairs(m) == MetricPairsOf(m, DOMAIN m)
TruncationModes == {"keep_start", "keep_end", "keep_middle"}

BatchIdle ==
    /\ bpc = "idle"
    /\ examples = <<>>
    /\ max_length = None
    /\ truncation_mode = "keep_end"
    /\ padding_free = FALSE
    /\ is_encoder_decoder = FALSE
    /\ ld_alpha = None
    /\ is_ref_model = FALSE
    /\ batch = None
    /\ concatenated_batch = None
    /\ model_output = None


\* the loss engine at rest, but for self.loss_type
LossAtRest ==
    /\ lpc = "idle"
    /\ calls = 0
    /\ lambda_weight = 500
    /\ label_smoothing = 0
    /\ reference_free = FALSE
    /\ f_divergence_type = "reverse_kl"
    /\ running = None
    /\ policy_logps = None
    /\ ref_logps = None
    /\ loss_out = None
    /\ metrics = None

LossIdle ==
    /\ loss_type = "sigmoid"
    /\ LossAtRest

DataIdle ==
    /\ dpc = "idle"
    /\ features = {}
    /\ texts = <<>>
    /\ arg_max_prompt_length = None
    /\ arg_max_completion_length = None
    /\ add_special_tokens = FALSE
    /\ data_out = None

TrainerIdle ==
    /\ tpc = "idle"
    /\ args = None
    /\ train_dataset = NoDataset
    /\ eval_dataset = NoDataset
    /\ precomputed_train_ref_log_probs = FALSE
    /\ precomputed_eval_ref_log_probs = FALSE
    /\ error = NoError
    /\ train_dataloader = NoDataset
    /\ eval_dataloader = NoDataset
    /\ served = {}
    /\ ref_passes = [d \in DatasetIds |-> 0]
    /\ loader_calls = 0
    /\ steps_started = 0
    /\ policy_forwards = 0
    /\ ref_forwards = 0
    /\ step_ref_calls = 0
    /\ callbacks = {}


MetricsIdle ==
    /\ stored_metrics = EmptyStore
    /\ logs = None
    /\ since_flush = [p \in Phases |-> <<>>]
    /\ metric_calls = 0

AdapterIdle ==
    /\ rpc = "idle"
    /\ is_peft_model = FALSE
    /\ ref_adapter_name = None
    /\ model_adapter_name = None
    /\ active_adapter = "default"
    /\ adapter_enabled = TRUE
    /\ ref_ran_with = None
    /\ policy_ran_with = None
    /\ adapter_calls = 0
(***************************************************************************)
(* SpecBatch                                                               *)
(***************************************************************************)
MaxLengths == {None} \cup {<<w>> : w \in 2..MaxLength}

\* the attributes of the trainer concatenated_forward reads, and is_ref_model:
\* every max_length and truncation_mode with the other attributes at their
\* defaults, ipo with and without padding_free and truncation, padding_free
\* alone and with a max_length that cuts whole prompts away, and ld_alpha
\* for a policy call and for a reference call; all for a decoder-only model
DecoderOnlyConfigs ==
    {[max_length |-> ml, truncation_mode |-> mode, loss_type |-> "sigmoid",
      padding_free |-> FALSE, ld_alpha |-> None, is_ref_model |-> FALSE] :
        ml \in MaxLengths, mode \in TruncationModes}
    \cup {[max_length |-> t[1], truncation_mode |-> t[2], loss_type |-> "ipo",
           padding_free |-> pf, ld_alpha |-> None, is_ref_model |-> FALSE] :
             t \in {<<None, "keep_end">>, <<(<<MaxLength>>), "keep_start">>,
                    <<(<<MaxLength>>), "keep_end">>},
             pf \in BOOLEAN}
    \cup {[max_length |-> ml, truncation_mode |-> "keep_end", loss_type |-> "sigmoid",
           padding_free |-> TRUE, ld_alpha |-> None, is_ref_model |-> FALSE] :
             ml \in {None, <<MaxLength - 1>>}}
    \cup {[max_length |-> None, truncation_mode |-> "keep_end", loss_type |-> "sigmoid",
           padding_free |-> FALSE, ld_alpha |-> <<t[1]>>, is_ref_model |-> t[2]] :
             t \in {<<500, FALSE>>, <<1000, FALSE>>, <<500, TRUE>>}}

\* the same for a decoder-only model, and an encoder-decoder model with the
\* other attributes at their defaults
BatchConfigs ==
    {c @@ [is_encoder_decoder |-> FALSE] : c \in DecoderOnlyConfigs}
    \cup {[max_length |-> None, truncation_mode |-> "keep_end", loss_type |-> "sigmoid",
           padding_free |-> FALSE, ld_alpha |-> None, is_ref_model |-> FALSE,
           is_encoder_decoder |-> TRUE]}

\* self, as concatenated_forward reads it
Self ==
    [max_length |-> max_length, truncation_mode |-> truncation_mode, loss_type |-> loss_type,
     padding_free |-> padding_free, ld_alpha |-> ld_alpha,
     is_encoder_decoder |-> is_encoder_decoder]

InitBatch ==
    /\ bpc = "examples"
    /\ \E n \in 1..MaxN : \E ss \in BatchShapes(n) :
           examples = [i \in 1..n |-> Example(i, ss[i])]
    /\ \E c \in BatchConfigs :
           /\ max_length = c.max_length
           /\ truncation_mode = c.truncation_mode
           /\ loss_type = c.loss_type
           /\ padding_free = c.padding_free
           /\ is_encoder_decoder = c.is_encoder_decoder
           /\ ld_alpha = c.ld_alpha
           /\ is_ref_model = c.is_ref_model
    /\ batch = None
    /\ concatenated_batch = None
    /\ model_output = None
    /\ LossAtRest
    /\ DataIdle
    /\ TrainerIdle
    /\ MetricsIdle
    /\ AdapterIdle

\* the collator builds the padded batch
TorchCall ==
    /\ bpc = "examples"
    /\ batch' = torch_call(examples)
    /\ bpc' = "collated"
    /\ UNCHANGED <<examples, max_length, truncation_mode, padding_free, ld_alpha, is_ref_model,
                   is_encoder_decoder,
                   concatenated_batch, model_output>>
    /\ UNCHANGED <<lossVars, dataVars, trainerVars, metricsVars, adapterVars>>

\* concatenated_inputs called on its own (it is a static method)
ConcatenatedInputs ==
    /\ bpc = "collated"
    /\ concatenated_batch' = concatenated_inputs(batch, padding_value)
    /\ bpc' = "concatenated"
    /\ UNCHANGED <<examples, max_length, truncation_mode, padding_free, ld_alpha, is_ref_model,
                   is_encoder_decoder,
                   batch, model_output>>
    /\ UNCHANGED <<lossVars, dataVars, trainerVars, metricsVars, adapterVars>>

\* concatenated_forward on the collated batch: it assembles the 4N batch
\* itself, then scores it
ConcatenatedForward ==
    /\ bpc = "collated"
    /\ concatenated_batch' = concatenated_inputs(batch, padding_value)
    /\ model_output' = concatenated_forward(batch, Self, is_ref_model)
    /\ bpc' = "scored"
    /\ UNCHANGED <<examples, max_length, truncation_mode, padding_free, ld_alpha, is_ref_model,
                   is_encoder_decoder,
                   batch>>
    /\ UNCHANGED <<lossVars, dataVars, trainerVars, metricsVars, adapterVars>>

NextBatch == TorchCall \/ ConcatenatedInputs \/ ConcatenatedForward

SpecBatch == InitBatch /\ [][NextBatch]_vars

N == Len(examples)

\* the real tokens of a row: the ids at the positions its mask marks
RealTokens(ids, mask) == Reorder(ids, OnesIdx(mask))

\* the example fields behind the four row groups, in group order
PromptOfGroup == <<"prompt_input_ids", "prompt_input_ids",
                   "chosen_prompt_input_ids", "rejected_prompt_input_ids">>

CompletionOfGroup == <<"chosen_response_input_ids", "rejected_response_input_ids",
                       "response_input_ids", "response_input_ids">>

SequenceLogp(prompt, completion, truncating, maxlen, mode) ==
    LET toks == prompt \o completion
        isc == [k \in 1..Len(prompt) |-> 0] \o [k \in 1..Len(completion) |-> 1]
        lo == IF truncating /\ mode = "keep_end" /\ maxlen[1] < Len(toks)
              THEN Len(toks) - maxlen[1] + 1 ELSE 1
        hi == IF truncating /\ mode = "keep_start" /\ maxlen[1] < Len(toks)
              THEN maxlen[1] ELSE Len(toks)
    IN  SumSeq([k \in 1..(hi - lo) |->
                  IF isc[lo + k] = 1 THEN TokenLogp(toks[lo + k - 1], toks[lo + k]) ELSE 0])

BatchTruncating ==
    /\ max_length # None
    /\ max_length[1] < Width(concatenated_batch.prompt_input_ids)
                        + Width(concatenated_batch.completion_input_ids)

ExampleLogp(i, g) ==
    SequenceLogp(examples[i][PromptOfGroup[g]], examples[i][CompletionOfGroup[g]],
                 BatchTruncating, max_length, truncation_mode)

\* C2: concatenated_forward returns four groups of length N; entry i of
\* chosen_logps_dpo, rejected_logps_dpo, chosen_logps_adpo, rejected_logps_adpo
\* is the per-sequence value of concatenated row i, N+i, 2N+i, 3N+i, and it is
\* the score of example i's own (prompt, chosen_response), (prompt,
\* rejected_response), (chosen_prompt, response), (rejected_prompt, response).
C2_SplitPreservesIndex ==
    (bpc = "scored" /\ model_output.status = "ok") =>
        /\ Len(model_output.all_logps) = 4 * N
        /\ Len(model_output.chosen_logps_dpo) = N
        /\ Len(model_output.rejected_logps_dpo) = N
        /\ Len(model_output.chosen_logps_adpo) = N
        /\ Len(model_output.rejected_logps_adpo) = N
        /\ \A i \in 1..N :
              /\ model_output.chosen_logps_dpo[i] = model_output.all_logps[i]
              /\ model_output.rejected_logps_dpo[i] = model_output.all_logps[N + i]
              /\ model_output.chosen_logps_adpo[i] = model_output.all_logps[2 * N + i]
              /\ model_output.rejected_logps_adpo[i] = model_output.all_logps[3 * N + i]
              \* ipo divides the score by a length, see C15; the score of an
              \* encoder-decoder model is the subject of C22
              /\ (loss_type # "ipo" /\ ~is_encoder_decoder) =>
                    /\ model_output.chosen_logps_dpo[i] = ExampleLogp(i, 1)
                    /\ model_output.rejected_logps_dpo[i] = ExampleLogp(i, 2)
                    /\ model_output.chosen_logps_adpo[i] = ExampleLogp(i, 3)
                    /\ model_output.rejected_logps_adpo[i] = ExampleLogp(i, 4)

\* a two-example batch has been scored and the four values of example 2 differ
\* from each other and from those of example 1
C2_Witness ==
    /\ bpc = "scored"
    /\ model_output.status = "ok"
    /\ loss_type # "ipo"
    /\ N = 2
    /\ Cardinality({model_output.all_logps[r] : r \in 1..8}) = 8


\* the tokens of the completion of row r = (g - 1) N + i
CompletionTokens(r) ==
    LET g == ((r - 1) \div N) + 1
        i == ((r - 1) % N) + 1
    IN  {examples[i][CompletionOfGroup[g]][k] :
            k \in 1..Len(examples[i][CompletionOfGroup[g]])}

GroupOf(r) == ((r - 1) \div N) + 1

IndexOf(r) == ((r - 1) % N) + 1

\* C15: with loss_type ipo every returned per-sequence log-probability is the
\* raw sum of the row divided by the row's own number of real completion
\* tokens, in padded and in padding-free mode alike; with any other loss type
\* it is the raw sum.
C15_IpoDividesByOwnLength ==
    (bpc = "scored" /\ model_output.status = "ok") =>
        \A r \in 1..(4 * N) :
            LET own == SumSeq(model_output.loss_mask[r])
                raw == ExampleLogp(IndexOf(r), GroupOf(r))
            IN  /\ (loss_type = "ipo" /\ own > 0) =>
                      model_output.all_logps[r] = RDiv(raw, own)
                /\ loss_type # "ipo" => model_output.all_logps[r] = raw

\* C16: in the output of concatenated_inputs every prompt row is as wide as
\* the widest of the three prompt tensors and is padded on the left: the pad
\* value (0 in the mask) comes first, then the row's real prompt tokens, which
\* end at the last prompt column.
C16_PromptsLeftPadded ==
    bpc = "concatenated" =>
        \A r \in 1..(4 * N) :
            LET ids == concatenated_batch.prompt_input_ids[r]
                am == concatenated_batch.prompt_attention_mask[r]
                real == Len(examples[IndexOf(r)][PromptOfGroup[GroupOf(r)]])
                W == MaxOf({Width(batch.prompt_input_ids), Width(batch.chosen_prompt_input_ids),
                            Width(batch.rejected_prompt_input_ids)})
            IN  /\ Len(ids) = W
                /\ Len(am) = W
                /\ \A j \in 1..W :
                      IF j <= W - real
                      THEN ids[j] = padding_value /\ am[j] = 0
                      ELSE ids[j] = examples[IndexOf(r)][PromptOfGroup[GroupOf(r)]][j - (W - real)]
                           /\ am[j] = 1

\* the real tokens of row r before truncation, prompt then completion, and
\* for each of them whether it belongs to the completion
RowTokens(r) ==
    examples[IndexOf(r)][PromptOfGroup[GroupOf(r)]]
    \o examples[IndexOf(r)][CompletionOfGroup[GroupOf(r)]]

RowIsCompletion(r) ==
    [k \in 1..Len(examples[IndexOf(r)][PromptOfGroup[GroupOf(r)]]) |-> 0]
    \o [k \in 1..Len(examples[IndexOf(r)][CompletionOfGroup[GroupOf(r)]]) |-> 1]

\* what truncation keeps of a sequence: all of it when it has at most
\* max_length entries, else its first (keep_start) or last (keep_end) max_length
Kept(s) ==
    IF Len(s) <= max_length[1] THEN s
    ELSE IF truncation_mode = "keep_start" THEN SubSeq(s, 1, max_length[1])
    ELSE SubSeq(s, Len(s) - max_length[1] + 1, Len(s))

\* C17: when max_length is set and exceeded, under keep_start and keep_end,
\* every row of input ids, attention mask and loss mask comes out at most
\* max_length wide and aligned; the real tokens of a row are the first
\* (keep_start) or the last (keep_end) max_length real tokens of the original
\* row, in order, each with its own loss-mask value, and no row has padding
\* before its first real token.
C17_TruncationKeepsAlignedTokens ==
    (bpc = "scored" /\ BatchTruncating /\ truncation_mode \in {"keep_start", "keep_end"}) =>
        /\ model_output.status = "ok"
        /\ \A r \in 1..(4 * N) :
              LET ids == model_output.input_ids[r]
                  am == model_output.attention_mask[r]
                  lm == model_output.loss_mask[r]
                  real == Len(Kept(RowTokens(r)))
              IN  /\ Len(ids) <= max_length[1]
                  /\ Len(am) = Len(ids)
                  /\ Len(lm) = Len(ids)
                  /\ \A j \in 1..Len(ids) :
                        IF j <= real
                        THEN /\ am[j] = 1
                             /\ ids[j] = Kept(RowTokens(r))[j]
                             /\ lm[j] = Kept(RowIsCompletion(r))[j]
                        ELSE am[j] = 0 /\ lm[j] = 0
                  /\ real <= Len(ids)

\* keep_end has cut a row that was too long while another row of the batch
\* was short enough to be kept whole and is padded
C17_Witness ==
    /\ bpc = "scored"
    /\ BatchTruncating
    /\ truncation_mode = "keep_end"
    /\ model_output.status = "ok"
    /\ \E r \in 1..(4 * N) : Len(RowTokens(r)) > max_length[1]
    /\ \E r \in 1..(4 * N) : \E j \in 1..Len(model_output.attention_mask[r]) :
          model_output.attention_mask[r][j] = 0

\* C18: with a truncation_mode other than keep_start and keep_end,
\* concatenated_forward fails with an error that names the offending value
\* and the valid alternatives, whatever the lengths of the batch and whether
\* or not max_length is set.
C18_UnknownModeAlwaysFails ==
    (bpc = "scored" /\ truncation_mode \notin {"keep_start", "keep_end"}) =>
        /\ model_output.status = "ValueError"
        /\ model_output.message = "Unknown truncation mode"
        /\ model_output.value_named = truncation_mode
        /\ model_output.alternatives_named = {"keep_start", "keep_end"}

\* the row scored against row r: chosen and rejected rows of the same example
PairedRow(r) == IF GroupOf(r) \in {1, 3} THEN r + N ELSE r - N

CompletionLength(r) == Len(examples[IndexOf(r)][CompletionOfGroup[GroupOf(r)]])

\* the log-probability of the k-th completion token of row r
CompletionTokenLogp(r, k) ==
    LET p == Len(examples[IndexOf(r)][PromptOfGroup[GroupOf(r)]])
    IN  TokenLogp(RowTokens(r)[p + k - 1], RowTokens(r)[p + k])

\* front + ld_alpha * rear with the public length L of the row's pair
Desensitised(r, alpha) ==
    LET L == IF CompletionLength(r) < CompletionLength(PairedRow(r))
             THEN CompletionLength(r) ELSE CompletionLength(PairedRow(r))
        front == SumSeq([k \in 1..L |-> CompletionTokenLogp(r, k)])
        rear == SumSeq([k \in 1..(CompletionLength(r) - L) |-> CompletionTokenLogp(r, L + k)])
    IN  front + FMul(alpha, rear)

\* C19: with ld_alpha set, a policy call of concatenated_forward on the 4N-row
\* batch completes and returns four groups of length N; the value of a row is
\* front + ld_alpha * rear, where front sums the first L completion tokens,
\* rear the others, and L is the smaller of the completion lengths of the
\* row's chosen/rejected pair; with ld_alpha = 1 it is the plain sum.
C19_LengthDesensitisedGroups ==
    (bpc = "scored" /\ ld_alpha # None /\ ~is_ref_model) =>
        /\ model_output.status = "ok"
        /\ Len(model_output.chosen_logps_dpo) = N
        /\ Len(model_output.rejected_logps_dpo) = N
        /\ Len(model_output.chosen_logps_adpo) = N
        /\ Len(model_output.rejected_logps_adpo) = N
        /\ \A r \in 1..(4 * N) :
              /\ model_output.all_logps[r] = Desensitised(r, ld_alpha[1])
              /\ ld_alpha[1] = SCALE =>
                    model_output.all_logps[r] = ExampleLogp(IndexOf(r), GroupOf(r))

\* the log-probability of every completion token of row (g - 1) N + i, summed:
\* a decoder-only model scores a token after the token before it in prompt +
\* completion, an encoder-decoder model after the token before it in the
\* completion shifted right behind the start token
FullCompletionLogp(i, g) ==
    LET prompt == examples[i][PromptOfGroup[g]]
        completion == examples[i][CompletionOfGroup[g]]
        before(k) == IF is_encoder_decoder
                     THEN (IF k = 1 THEN padding_value ELSE completion[k - 1])
                     ELSE (prompt \o completion)[Len(prompt) + k - 1]
    IN  SumSeq([k \in 1..Len(completion) |-> TokenLogp(before(k), completion[k])])

\* C22: for every row of the 4N batch the per-sequence log-probability
\* concatenated_forward returns is the sum of the per-token log-probabilities
\* of all the real completion tokens of the row, none dropped and none from a
\* prompt or padding position, for a decoder-only and an encoder-decoder model,
\* rows whose completion fills the padded completion width included.  (Stated
\* for batches max_length does not truncate, without the ipo division and
\* without length desensitisation.)
C22_SumsEveryCompletionToken ==
    (bpc = "scored" /\ ~BatchTruncating /\ loss_type # "ipo" /\ ld_alpha = None) =>
        /\ model_output.status = "ok"
        /\ \A g \in 1..4 : \A i \in 1..N :
              model_output.all_logps[(g - 1) * N + i] = FullCompletionLogp(i, g)

\* the number of real tokens of row r of the scored batch
RowLength(r) == SumSeq(model_output.attention_mask[r])

\* the position in the packed sequence of the first token of row r
RowStart(r) == SumSeq([q \in 1..(r - 1) |-> RowLength(q)]) + 1

\* the position indices run 0..len-1 within each row and are 0 exactly at the
\* 4N row starts
PositionsRestart(pos) ==
    /\ Len(pos) = SumSeq([r \in 1..(4 * N) |-> RowLength(r)])
    /\ \A r \in 1..(4 * N) : \A k \in 1..RowLength(r) : pos[RowStart(r) + k - 1] = k - 1
    /\ Cardinality({k \in 1..Len(pos) : pos[k] = 0}) = 4 * N

\* the columns line 1956 sums: all but column 0
SummedColumns(t) == [r \in 1..Len(t) |-> Tail(t[r])]

\* the unflattened values agree with the padded ones at every summed column,
\* and without the ipo division the value returned is the padded sum
SameSums(packed, padded_summed) ==
    /\ SummedColumns(packed) = padded_summed
    /\ loss_type # "ipo" => model_output.all_logps = RowSums(padded_summed)

\* C28: in padding-free mode the 4N rows are packed into one sequence of the
\* real tokens; the position indices handed to the model run 0..len-1 within
\* each row and are 0 exactly at the 4N row starts; after unflattening, the
\* log-probabilities of every row are those the padded computation gives the
\* row at every column that is summed, so every row's sum equals the padded
\* one and no value of a neighbouring row enters it; without the ipo division
\* the value returned is that sum.
C28_PaddingFreeEqualsPadded ==
    (bpc = "scored" /\ padding_free /\ model_output.status = "ok") =>
        /\ PositionsRestart(model_output.position_ids[1])
        /\ SameSums(row_token_logps(model_output.input_ids, model_output.attention_mask,
                                    model_output.loss_mask, TRUE),
                    SummedColumns(row_token_logps(model_output.input_ids,
                                                  model_output.attention_mask,
                                                  model_output.loss_mask, FALSE)))

\* a padding-free call has scored a batch of two examples in which some row
\* is shorter than the padded width, so that packing removed padding and the
\* rows start at positions a padded batch would not give them
C28_Witness ==
    /\ bpc = "scored"
    /\ padding_free
    /\ model_output.status = "ok"
    /\ N = 2
    /\ \E r \in 1..7 : RowLength(r) < Len(model_output.attention_mask[r])
    /\ \E r \in 1..8 : \E j \in 2..Len(model_output.input_ids[r]) :
          row_token_logps(model_output.input_ids, model_output.attention_mask,
                          model_output.loss_mask, TRUE)[r][j] # 0
(***************************************************************************)
(* SpecLoss: the loss engine on given policy and reference log-probs       *)
(***************************************************************************)
MaxRefK == 1       \* reference log-probs range over 0, -2, ..., -2 MaxRefK
MaxCalls == 2      \* loss calls made in a row on one trainer

LossTypes == SupportedLossTypes \cup {"bogus"}

FDivergenceTypes == {"reverse_kl", "js_divergence", "alpha_divergence"}

LabelSmoothings == {0, 100}

LambdaWeights == {0, 500, 1000}

\* the batch of the end-to-end scenario
ScenarioPolicy ==
    [chosen_logps_dpo |-> <<0 - 2000, 0 - 3000>>,
     rejected_logps_dpo |-> <<0 - 4000, 0 - 3500>>,
     chosen_logps_adpo |-> <<0 - 1000, 0 - 2000>>,
     rejected_logps_adpo |-> <<0 - 5000, 0 - 4000>>]

PolicyCases ==
    {ScenarioPolicy,
     [chosen_logps_dpo |-> <<0 - 4000, 0 - 1500>>,
      rejected_logps_dpo |-> <<0 - 2000, 0 - 3000>>,
      chosen_logps_adpo |-> <<0 - 3000, 0 - 1000>>,
      rejected_logps_adpo |-> <<0 - 2500, 0 - 4500>>],
     [chosen_logps_dpo |-> <<0 - 1000>>,
      rejected_logps_dpo |-> <<0 - 1500>>,
      chosen_logps_adpo |-> <<0 - 2500>>,
      rejected_logps_adpo |-> <<0 - 2000>>]}

RefValues == {0 - 2000 * k : k \in 0..MaxRefK}

\* a reference group: example i gets v - (i - 1) / 2
RefVector(v, n) == [i \in 1..n |-> v - 500 * (i - 1)]

\* reference log-probs for a batch of n examples: the chosen and the rejected
\* value are drawn independently, the adpo pair's chosen value lies 1 below
\* the dpo pair's
RefCases(n) ==
    {[chosen_logps_dpo |-> RefVector(v[1], n),
      rejected_logps_dpo |-> RefVector(v[2], n),
      chosen_logps_adpo |-> RefVector(v[1] - SCALE, n),
      rejected_logps_adpo |-> RefVector(v[2], n)] : v \in [1..2 -> RefValues]}

\* the attributes of the trainer that dpo_loss reads
St ==
    [loss_type |-> loss_type,
     label_smoothing |-> label_smoothing,
     reference_free |-> reference_free,
     f_divergence_type |-> f_divergence_type,
     running |-> running]

InitLoss ==
    /\ BatchIdle
    /\ DataIdle
    /\ TrainerIdle
    /\ MetricsIdle
    /\ AdapterIdle
    /\ lpc = "inputs"
    /\ calls = 0
    /\ loss_type \in LossTypes
    /\ lambda_weight \in LambdaWeights
    /\ label_smoothing \in LabelSmoothings
    /\ reference_free \in BOOLEAN
    /\ f_divergence_type \in FDivergenceTypes
    \* line 573: self.running exists only for bco_pair
    /\ running = IF loss_type = "bco_pair" THEN [count |-> 0, mean |-> 0] ELSE None
    /\ policy_logps \in PolicyCases
    /\ ref_logps \in RefCases(Len(policy_logps.chosen_logps_dpo))
    /\ loss_out = None
    /\ metrics = None

\* what a loss call leaves in the trainer: an exception leaves it as it was
AfterLossCall(out, kind, m) ==
    /\ loss_out' = out
    /\ metrics' = m
    /\ lpc' = kind
    /\ calls' = calls + 1
    /\ label_smoothing' = out.label_smoothing
    /\ running' = out.running
    /\ UNCHANGED <<loss_type, lambda_weight, reference_free, f_divergence_type,
                   policy_logps, ref_logps>>
    /\ UNCHANGED <<batchVars, dataVars, trainerVars, metricsVars, adapterVars>>

\* dpo_loss called on the dpo pair
DpoLoss ==
    /\ lpc # "idle"
    /\ calls < MaxCalls
    /\ AfterLossCall(dpo_loss(policy_logps.chosen_logps_dpo, policy_logps.rejected_logps_dpo,
                              ref_logps.chosen_logps_dpo, ref_logps.rejected_logps_dpo, St),
                     "dpo_loss", None)

MultiDpoLoss ==
    /\ lpc # "idle"
    /\ calls < MaxCalls
    /\ AfterLossCall(multidpo_loss(policy_logps, ref_logps, St, lambda_weight),
                     "multidpo_loss", None)

AfterMetrics(res) == AfterLossCall(res.out, "metrics", res.metrics)

\* get_batch_loss_metrics from the loss on
GetBatchLossMetrics ==
    /\ lpc # "idle"
    /\ calls < MaxCalls
    /\ AfterMetrics(batch_loss_metrics(policy_logps, ref_logps, St, lambda_weight))

NextLoss == DpoLoss \/ MultiDpoLoss \/ GetBatchLossMetrics

SpecLoss == InitLoss /\ [][NextLoss]_vars

PairLosses(g, st) ==
    IF g = "dpo"
    THEN dpo_loss(policy_logps.chosen_logps_dpo, policy_logps.rejected_logps_dpo,
                  ref_logps.chosen_logps_dpo, ref_logps.rejected_logps_dpo, st)
    ELSE dpo_loss(policy_logps.chosen_logps_adpo, policy_logps.rejected_logps_adpo,
                  ref_logps.chosen_logps_adpo, ref_logps.rejected_logps_adpo, st)

\* C3: a multidpo_loss call returns, per example, lambda * loss_dpo +
\* (1 - lambda) * loss_adpo and the chosen and rejected rewards combined with
\* the same weights, loss_dpo and loss_adpo being what dpo_loss gives for the
\* dpo pair and then for the adpo pair; at lambda_weight = 1 the result is the
\* dpo pair's loss and reward, at lambda_weight = 0 the adpo pair's.
C3_CombinedLoss ==
    [][(lpc' = "multidpo_loss" /\ calls' = calls + 1 /\ loss_out'.status = "ok") =>
        LET d == PairLosses("dpo", St)
            a == PairLosses("adpo", [St EXCEPT !.label_smoothing = d.label_smoothing,
                                               !.running = d.running])
            lam == lambda_weight
            Mix(x, y) == RDiv((lam * (x % SCALE) + (SCALE - lam) * (y % SCALE)), SCALE)
                         + lam * (x \div SCALE) + (SCALE - lam) * (y \div SCALE)
        IN  /\ d.status = "ok" /\ a.status = "ok"
            /\ \A i \in 1..Len(d.losses) :
                  /\ loss_out'.losses[i] - Mix(d.losses[i], a.losses[i]) \in {0 - 1, 0, 1}
                  /\ loss_out'.chosen_rewards[i]
                        - Mix(d.chosen_rewards[i], a.chosen_rewards[i]) \in {0 - 1, 0, 1}
                  /\ loss_out'.rejected_rewards[i]
                        - Mix(d.rejected_rewards[i], a.rejected_rewards[i]) \in {0 - 1, 0, 1}
            /\ lam = SCALE =>
                  /\ loss_out'.losses = d.losses
                  /\ loss_out'.chosen_rewards = d.chosen_rewards
                  /\ loss_out'.rejected_rewards = d.rejected_rewards
            /\ lam = 0 =>
                  /\ loss_out'.losses = a.losses
                  /\ loss_out'.chosen_rewards = a.chosen_rewards
                  /\ loss_out'.rejected_rewards = a.rejected_rewards]_vars

\* multidpo_loss has returned with lambda_weight = 1 on a batch whose dpo and
\* adpo losses differ
C3_Witness ==
    /\ lpc = "multidpo_loss"
    /\ loss_out.status = "ok"
    /\ lambda_weight = SCALE
    /\ loss_out.dpo_losses # loss_out.adpo_losses
    /\ loss_out.losses = loss_out.dpo_losses

BaseLogitsTypes == {"sigmoid", "robust", "exo_pair", "hinge", "ipo"}

\* C4: with reference_free and no f-divergence, for sigmoid, robust,
\* exo_pair, hinge and ipo the logits dpo_loss feeds to the loss formula are
\* chosen_logp - rejected_logp, whatever reference log-probs were passed.
C4_ReferenceFreeLogits ==
    (/\ lpc \in {"dpo_loss", "multidpo_loss", "metrics"}
     /\ reference_free
     /\ f_divergence_type = "reverse_kl"
     /\ loss_type \in BaseLogitsTypes) =>
        /\ loss_out.status = "ok"
        /\ lpc = "dpo_loss" =>
              /\ loss_out.logits =
                    [i \in 1..Len(policy_logps.chosen_logps_dpo) |->
                        policy_logps.chosen_logps_dpo[i] - policy_logps.rejected_logps_dpo[i]]
              /\ loss_type = "hinge" =>
                    \A i \in 1..Len(policy_logps.chosen_logps_dpo) :
                        loss_out.losses[i] =
                            relu(SCALE - FMul(beta, policy_logps.chosen_logps_dpo[i]
                                                    - policy_logps.rejected_logps_dpo[i]))
        /\ lpc # "dpo_loss" =>
              /\ loss_out.dpo_logits =
                    [i \in 1..Len(policy_logps.chosen_logps_dpo) |->
                        policy_logps.chosen_logps_dpo[i] - policy_logps.rejected_logps_dpo[i]]
              /\ loss_out.adpo_logits =
                    [i \in 1..Len(policy_logps.chosen_logps_adpo) |->
                        policy_logps.chosen_logps_adpo[i] - policy_logps.rejected_logps_adpo[i]]

\* dpo_loss has returned in reference-free mode for references whose chosen
\* and rejected values differ
C4_Witness ==
    /\ lpc = "dpo_loss"
    /\ reference_free
    /\ f_divergence_type = "reverse_kl"
    /\ loss_type = "ipo"
    /\ loss_out.status = "ok"
    /\ ref_logps.chosen_logps_dpo # ref_logps.rejected_logps_dpo

\* C5: in the end-to-end scenario (beta = 0.1, lambda_weight = 0.5, sigmoid,
\* reference_free, the scenario's policy log-probs) the dpo logits are
\* [2, 0.5], the adpo logits are [4, 2] and rewards/accuracies is 1.0, for
\* every value of the reference log-probabilities.
C5_ScenarioAccuracy ==
    (/\ lpc = "metrics"
     /\ loss_type = "sigmoid"
     /\ reference_free
     /\ f_divergence_type = "reverse_kl"
     /\ lambda_weight = 500
     /\ policy_logps = ScenarioPolicy) =>
        /\ loss_out.status = "ok"
        /\ loss_out.dpo_logits = <<2000, 500>>
        /\ loss_out.adpo_logits = <<4000, 2000>>
        /\ metrics.rewards_accuracies = SCALE


\* C23: with reference_free = True the losses a dpo_loss call returns do not
\* depend on the reference log-probs: the call made with any other reference
\* log-probs on the same policy log-probs and the same trainer returns the
\* same losses, for every supported loss_type.
C23_ReferenceFreeIgnoresReference ==
    [][(lpc' = "dpo_loss" /\ calls' = calls + 1 /\ reference_free
          /\ loss_type \in SupportedLossTypes) =>
        \A r \in RefCases(Len(policy_logps.chosen_logps_dpo)) :
            dpo_loss(policy_logps.chosen_logps_dpo, policy_logps.rejected_logps_dpo,
                     r.chosen_logps_dpo, r.rejected_logps_dpo, St).losses
               = loss_out'.losses]_vars

\* C24: a dpo_loss, multidpo_loss or get_batch_loss_metrics call leaves the
\* loss configuration (label_smoothing, lambda_weight, loss_type,
\* reference_free, the f-divergence type) as it was, for every loss_type,
\* exo_pair with label_smoothing = 0 included; only the running mean of
\* bco_pair may change.
C24_LossCallsKeepConfiguration ==
    [][/\ label_smoothing' = label_smoothing
       /\ lambda_weight' = lambda_weight
       /\ loss_type' = loss_type
       /\ reference_free' = reference_free
       /\ f_divergence_type' = f_divergence_type
       /\ (loss_type # "bco_pair" => running' = running)]_vars

\* the k-th smallest value of a vector, counted with repetitions
KthSmallest(s, k) ==
    CHOOSE v \in {s[i] : i \in DOMAIN s} :
        /\ Cardinality({i \in DOMAIN s : s[i] < v}) < k
        /\ Cardinality({i \in DOMAIN s : s[i] <= v}) >= k

Minus(a, b) == [i \in DOMAIN a |-> a[i] - b[i]]

Permuted(s, p) == [i \in DOMAIN s |-> s[p[i]]]

SameMultiset(s, t) ==
    /\ Len(s) = Len(t)
    /\ \A i \in DOMAIN s :
          Cardinality({j \in DOMAIN s : s[j] = s[i]})
             = Cardinality({j \in DOMAIN t : t[j] = s[i]})

\* C26: for aot_pair, delta[k] is the k-th smallest chosen log-ratio minus the
\* k-th smallest rejected log-ratio (policy minus reference); for aot, delta[k]
\* is the k-th smallest policy (chosen - rejected) minus the k-th smallest
\* reference (chosen - rejected); the loss at position k is the smoothed
\* sigmoid loss of delta[k], and the multiset of the losses is the same for
\* every permutation of the examples of the batch.
C26_AotPairsByRank ==
    [][(lpc' = "dpo_loss" /\ calls' = calls + 1 /\ loss_type \in {"aot_pair", "aot"}) =>
        LET c == policy_logps.chosen_logps_dpo
            r == policy_logps.rejected_logps_dpo
            rc == ref_logps.chosen_logps_dpo
            rr == ref_logps.rejected_logps_dpo
            n == Len(c)
            delta(k) == IF loss_type = "aot_pair"
                        THEN KthSmallest(Minus(c, rc), k) - KthSmallest(Minus(r, rr), k)
                        ELSE KthSmallest(Minus(c, r), k) - KthSmallest(Minus(rc, rr), k)
        IN  /\ loss_out'.status = "ok"
            /\ \A k \in 1..n :
                  loss_out'.losses[k] = sigmoid_loss(delta(k), label_smoothing)
            /\ \A p \in {q \in [1..n -> 1..n] : \A i, j \in 1..n : q[i] = q[j] => i = j} :
                  SameMultiset(dpo_loss(Permuted(c, p), Permuted(r, p), Permuted(rc, p),
                                        Permuted(rr, p), St).losses,
                               loss_out'.losses)]_vars

\* dpo_loss has returned for aot_pair or aot on a batch of two examples whose
\* values are not in ascending order, so that the loss at position 1 is not
\* the loss example 1 would get from its own values
C26_Witness ==
    /\ lpc = "dpo_loss"
    /\ calls = 1
    /\ loss_type \in {"aot_pair", "aot"}
    /\ loss_out.status = "ok"
    /\ Len(loss_out.losses) = 2
    /\ LET c == policy_logps.chosen_logps_dpo
           r == policy_logps.rejected_logps_dpo
           rc == ref_logps.chosen_logps_dpo
           rr == ref_logps.rejected_logps_dpo
           own == IF loss_type = "aot_pair"
                  THEN (c[1] - rc[1]) - (r[1] - rr[1])
                  ELSE (c[1] - r[1]) - (rc[1] - rr[1])
       IN  loss_out.losses[1] # sigmoid_loss(own, label_smoothing)

\* the sppo_hard loss of a chosen log-ratio a and a rejected log-ratio b
SppoHard(a, b) ==
    LET x == a - FDiv(SCALE \div 2, beta)
        y == b + FDiv(SCALE \div 2, beta)
    IN  FMul(x, x) + FMul(y, y)

\* C27 (as stated): sppo_hard sorts the reference-subtracted log-ratios across
\* the batch before pairing them, so the loss at position k is computed from
\* the k-th smallest chosen and the k-th smallest rejected log-ratio, as for
\* aot and aot_pair.
C27_SppoHardPairsByRank ==
    [][(lpc' = "dpo_loss" /\ calls' = calls + 1 /\ loss_type = "sppo_hard") =>
        LET a == Minus(policy_logps.chosen_logps_dpo, ref_logps.chosen_logps_dpo)
            b == Minus(policy_logps.rejected_logps_dpo, ref_logps.rejected_logps_dpo)
        IN  /\ loss_out'.status = "ok"
            /\ \A k \in 1..Len(a) :
                  loss_out'.losses[k] = SppoHard(KthSmallest(a, k), KthSmallest(b, k))]_vars

\* C27 (amended): sppo_hard does not sort: the loss at position k is computed
\* from example k's own reference-subtracted chosen and rejected log-ratios,
\* so permuting the examples of the batch permutes the losses the same way;
\* only aot and aot_pair pair by rank.
C27_SppoHardPairsByExample ==
    [][(lpc' = "dpo_loss" /\ calls' = calls + 1 /\ loss_type = "sppo_hard") =>
        LET c == policy_logps.chosen_logps_dpo
            r == policy_logps.rejected_logps_dpo
            rc == ref_logps.chosen_logps_dpo
            rr == ref_logps.rejected_logps_dpo
            n == Len(c)
        IN  /\ loss_out'.status = "ok"
            /\ \A k \in 1..n : loss_out'.losses[k] = SppoHard(c[k] - rc[k], r[k] - rr[k])
            /\ \A p \in {q \in [1..n -> 1..n] : \A i, j \in 1..n : q[i] = q[j] => i = j} :
                  dpo_loss(Permuted(c, p), Permuted(r, p), Permuted(rc, p),
                           Permuted(rr, p), St).losses
                     = Permuted(loss_out'.losses, p)]_vars

\* dpo_loss has returned for sppo_hard on a batch of two examples whose
\* log-ratios are not in ascending order: pairing by rank would have given
\* position 1 another loss
C27_Witness ==
    /\ lpc = "dpo_loss"
    /\ calls = 1
    /\ loss_type = "sppo_hard"
    /\ loss_out.status = "ok"
    /\ Len(loss_out.losses) = 2
    /\ LET a == Minus(policy_logps.chosen_logps_dpo, ref_logps.chosen_logps_dpo)
           b == Minus(policy_logps.rejected_logps_dpo, ref_logps.rejected_logps_dpo)
       IN  loss_out.losses[1] # SppoHard(KthSmallest(a, 1), KthSmallest(b, 1))
(***************************************************************************)
(* SpecData: tokenize_row and _prepare_dataset on every key set            *)
(***************************************************************************)
MaxTextLen == 2

MaxTruncLen == 2

\* the token ids of a text of n tokens under `key`
KeyIdx ==
    [prompt |-> 1, chosen_response |-> 2, rejected_response |-> 3, chosen_prompt |-> 4,
     rejected_prompt |-> 5, response |-> 6, chosen |-> 7, rejected |-> 8]

TextTokens(key, n) == [k \in 1..n |-> 10 * KeyIdx[key] + k]

\* rows of every key set with one token per text and nothing truncated, and
\* rows of the two accepted shapes with texts of 0..MaxTextLen tokens under
\* every setting of the truncation arguments
InitData ==
    /\ BatchIdle
    /\ LossIdle
    /\ TrainerIdle
    /\ MetricsIdle
    /\ AdapterIdle
    /\ dpc = "input"
    /\ data_out = None
    /\ \/ /\ features \in SUBSET AllKeys
          /\ texts = [k \in features |-> TextTokens(k, 1)]
          /\ arg_max_prompt_length = None
          /\ arg_max_completion_length = None
          /\ add_special_tokens = FALSE
       \/ /\ features \in {MultiDpoKeys, StandardDpoKeys}
          /\ \E lp \in 0..MaxTextLen, lr \in 0..MaxTextLen :
                texts = [k \in features |->
                            TextTokens(k, IF k \in PromptKeys THEN lp ELSE lr)]
          /\ arg_max_prompt_length \in {None} \cup {<<n>> : n \in 0..MaxTruncLen}
          /\ arg_max_completion_length \in {None} \cup {<<n>> : n \in 0..MaxTruncLen}
          /\ add_special_tokens \in BOOLEAN

\* tokenize_row called on one row
TokenizeRow ==
    /\ dpc = "input"
    /\ dpc' = "tokenize_row"
    /\ data_out' = tokenize_row(texts, arg_max_prompt_length, arg_max_completion_length,
                              add_special_tokens)
    /\ UNCHANGED <<features, texts, arg_max_prompt_length, arg_max_completion_length,
                   add_special_tokens, batchVars, lossVars, trainerVars, metricsVars, adapterVars>>

\* _prepare_dataset called on a dataset whose rows have these keys
PrepareDataset ==
    /\ dpc = "input"
    /\ dpc' = "prepare_dataset"
    /\ data_out' = prepare_dataset(features)
    /\ UNCHANGED <<features, texts, arg_max_prompt_length, arg_max_completion_length,
                   add_special_tokens, batchVars, lossVars, trainerVars, metricsVars, adapterVars>>

NextData == TokenizeRow \/ PrepareDataset

SpecData == InitData /\ [][NextData]_vars

\* C7: preparing a dataset whose first row has neither the full 6-key set nor
\* the full 3-key legacy set fails with an error that lists both accepted key
\* sets and the keys found, and no tokenized dataset is produced.
C7_SchemaErrorListsKeySets ==
    (/\ dpc = "prepare_dataset"
     /\ ~(MultiDpoKeys \subseteq features)
     /\ ~(StandardDpoKeys \subseteq features)) =>
        /\ data_out.status = "ValueError"
        /\ data_out.expected = {MultiDpoKeys, StandardDpoKeys}
        /\ data_out.got_keys = features

\* C8: tokenize_row accepts a row only if exactly one of the two shapes is
\* fully present: a row with the full 6-key set and chosen/rejected, or with
\* the legacy set and some of the multi-objective keys, is rejected.
C8_ExactlyOneShape ==
    (dpc = "tokenize_row" /\ data_out.status = "ok") =>
        features \in {MultiDpoKeys, StandardDpoKeys}


\* a sequence before truncation: the tokens of the text with the special
\* tokens tokenize_row adds
Untruncated(key) == with_special_tokens(texts, key, add_special_tokens)

IsSuffix(s, t) == Len(s) <= Len(t) /\ s = SubSeq(t, Len(t) - Len(s) + 1, Len(t))

IsPrefix(s, t) == Len(s) <= Len(t) /\ s = SubSeq(t, 1, Len(s))

\* C20: for every max_prompt_length >= 0 and max_completion_length >= 0,
\* tokenize_row returns prompt sequences of at most max_prompt_length tokens
\* that are the last tokens of the untruncated prompt, and response
\* sequences of at most max_completion_length tokens that are the first
\* tokens of the untruncated response.
C20_TruncationBounds ==
    (dpc = "tokenize_row" /\ data_out.status = "ok") =>
        \A key \in (IF data_out.format = "multidpo" THEN MultiDpoKeys ELSE StandardDpoKeys) :
            LET ids == data_out.ids[ColumnOf[key]]
            IN  /\ (key \in PromptKeys /\ arg_max_prompt_length # None) =>
                      /\ Len(ids) <= arg_max_prompt_length[1]
                      /\ IsSuffix(ids, Untruncated(key))
                /\ (key \notin PromptKeys /\ arg_max_completion_length # None) =>
                      /\ Len(ids) <= arg_max_completion_length[1]
                      /\ IsPrefix(ids, Untruncated(key))

\* C21: every response sequence tokenize_row returns (chosen_response,
\* rejected_response, response, or the legacy chosen and rejected) is
\* non-empty and ends with the end-of-sequence token, for every length of the
\* text and every max_completion_length.
C21_ResponsesEndWithEos ==
    (dpc = "tokenize_row" /\ data_out.status = "ok") =>
        \A key \in (IF data_out.format = "multidpo" THEN MultiDpoKeys ELSE StandardDpoKeys)
                     \ PromptKeys :
            LET ids == data_out.ids[ColumnOf[key]]
            IN  /\ ids # <<>>
                /\ ids[Len(ids)] = eos_token_id

(***************************************************************************)
(* SpecMetrics: store_metrics and log calls in any order                   *)
(***************************************************************************)
MaxMetricCalls == 4

MetricKeys == {"rewards/chosen", "rewards/margins"}

MetricValues == {1000, 3000}

\* the metrics of one step: always rewards/chosen, sometimes rewards/margins
StepMetrics ==
    {[k \in {"rewards/chosen"} |-> v] : v \in MetricValues}
    \cup {[k \in MetricKeys |-> IF k = "rewards/chosen" THEN v ELSE v + 500] :
             v \in MetricValues}

\* the records Trainer hands to log: a training record, an evaluation record
\* and the summary at the end of training, which has no "loss" key
LogRecords == {[loss |-> 500], [eval_loss |-> 700], [train_loss |-> 600]}

InitMetrics ==
    /\ BatchIdle
    /\ LossIdle
    /\ DataIdle
    /\ TrainerIdle
    /\ MetricsIdle
    /\ AdapterIdle

\* store_metrics(metrics, train_eval), as compute_loss and prediction_step call it
StoreMetrics ==
    /\ metric_calls < MaxMetricCalls
    /\ \E m \in StepMetrics, train_eval \in Phases :
          /\ stored_metrics' = store_metrics(stored_metrics, m, train_eval)
          /\ since_flush' = [since_flush EXCEPT ![train_eval] = @ \o MetricPairs(m)]
    /\ metric_calls' = metric_calls + 1
    /\ UNCHANGED logs
    /\ UNCHANGED <<batchVars, lossVars, dataVars, trainerVars, adapterVars>>

\* what a log call leaves in the trainer and hands to Trainer.log
AfterLog(res, lg) ==
    /\ stored_metrics' = res.stored_metrics
    /\ logs' = res.logs
    /\ since_flush' = [since_flush EXCEPT ![IF "loss" \in DOMAIN lg THEN "train" ELSE "eval"] = <<>>]

\* log(logs)
Log ==
    /\ metric_calls < MaxMetricCalls
    /\ \E lg \in LogRecords : AfterLog(MultiDPOTrainer_log(stored_metrics, lg), lg)
    /\ metric_calls' = metric_calls + 1
    /\ UNCHANGED <<batchVars, lossVars, dataVars, trainerVars, adapterVars>>

NextMetrics ==
    \/ StoreMetrics
    \/ Log

SpecMetrics == InitMetrics /\ [][NextMetrics]_vars

\* the values of `key` among the <<key, value>> pairs, in the order stored
ValuesOf(pairs, key) ==
    LET IsKey(kv) == kv[1] = key
        sel == SelectSeq(pairs, IsKey)
    IN  [i \in 1..Len(sel) |-> sel[i][2]]

KeysOf(pairs) == {pairs[i][1] : i \in 1..Len(pairs)}

\* the phase a log call flushes
FlushedPhase(lg) == IF "loss" \in DOMAIN lg THEN "train" ELSE "eval"

\* C13: whatever store_metrics and log calls came before, a log call that
\* flushes phase p writes into the outgoing record, for each key stored for
\* p, the mean of exactly the values stored for p since p's previous flush
\* and leaves p's store empty; the other phase's store is unchanged and
\* still holds every value stored for it since its own previous flush, so
\* its next flush reports them in full.
C13_FlushReportsPhaseMeans ==
    [][(logs' # logs \/ stored_metrics' # stored_metrics) =>
         /\ \A p \in Phases :
               /\ DOMAIN stored_metrics'[p] = KeysOf(since_flush'[p])
               /\ \A key \in DOMAIN stored_metrics'[p] :
                     stored_metrics'[p][key] = ValuesOf(since_flush'[p], key)
         /\ logs' # logs =>
               LET p == FlushedPhase(logs')
               IN  /\ \A key \in KeysOf(since_flush[p]) :
                         /\ key \in DOMAIN logs'
                         /\ logs'[key] = mean(ValuesOf(since_flush[p], key))
                   /\ DOMAIN logs' \cap MetricKeys = KeysOf(since_flush[p])
                   /\ stored_metrics'[p] = NoMetrics
                   /\ \A q \in Phases \ {p} : stored_metrics'[q] = stored_metrics[q]
    ]_vars

\* a flush that averaged two different values while the other phase had
\* values waiting
C13_Witness ==
    /\ logs # None
    /\ "loss" \in DOMAIN logs
    /\ "rewards/chosen" \in DOMAIN logs
    /\ logs["rewards/chosen"] = 2000
    /\ stored_metrics["train"] = NoMetrics
    /\ stored_metrics["eval"] # NoMetrics

\* the phase that produced a record: the training loop emits the records with
\* "loss" and the summary with "train_loss", evaluation the records with
\* "eval_loss"
ProducerPhase(lg) == IF "eval_loss" \in DOMAIN lg THEN "eval" ELSE "train"

\* a step of log: a call was made and nothing was stored
LogCalled ==
    /\ metric_calls' = metric_calls + 1
    /\ \A p \in Phases : Len(since_flush'[p]) <= Len(since_flush[p])

\* C30: a log call flushes exactly the store of the phase that produced the
\* record, for every record the training loop or evaluation emits, with or
\* without a "loss" key: that phase's store is emptied, the other phase's
\* store is untouched, and the metrics written into the record are the means
\* of the producing phase's values, none from the other phase.
C30_LogFlushesProducingPhase ==
    [][LogCalled =>
         LET p == ProducerPhase(logs')
         IN  /\ stored_metrics'[p] = NoMetrics
             /\ \A q \in Phases \ {p} : stored_metrics'[q] = stored_metrics[q]
             /\ DOMAIN logs' \cap MetricKeys = KeysOf(since_flush[p])
             /\ \A key \in KeysOf(since_flush[p]) :
                   logs'[key] = mean(ValuesOf(since_flush[p], key))
    ]_vars
(***************************************************************************)
(* SpecAdapter: null_ref_context and compute_ref_log_probs when the policy *)
(* model also serves as the reference (self.ref_model is None)             *)
(***************************************************************************)
MaxAdapterCalls == 4   \* compute_ref_log_probs calls and policy forward passes

\* the attributes null_ref_context reads
AdapterSelf ==
    [is_peft_model |-> is_peft_model, ref_adapter_name |-> ref_adapter_name,
     model_adapter_name |-> model_adapter_name]

\* the adapter selected on the model and whether the adapters are enabled
AdapterState == [active |-> active_adapter, enabled |-> adapter_enabled]

\* line 1173-1176: disable_adapter() is entered for a peft model without a
\* reference adapter
uses_disable_adapter(self) == self.is_peft_model /\ self.ref_adapter_name = None

\* lines 1172-1178: from the `with` to the yield
null_ref_context_enter(self, a) ==
    [active |-> IF self.ref_adapter_name # None THEN self.ref_adapter_name[1] ELSE a.active,
     enabled |-> IF uses_disable_adapter(self) THEN FALSE ELSE a.enabled]

\* lines 1180-1181 and the end of the `with`: the body of the caller returned
null_ref_context_exit(self, a) ==
    [active |-> IF self.ref_adapter_name # None
                THEN (IF self.model_adapter_name # None
                      THEN self.model_adapter_name[1] ELSE "default")
                ELSE a.active,
     enabled |-> IF uses_disable_adapter(self) THEN TRUE ELSE a.enabled]

\* the body of the caller raised: the exception comes out of the yield of
\* line 1179, lines 1180-1181 do not run, and the `with` of line 1172 is left
null_ref_context_raise(self, a) ==
    [active |-> a.active,
     enabled |-> IF uses_disable_adapter(self) THEN TRUE ELSE a.enabled]

InitAdapter ==
    /\ BatchIdle
    /\ LossIdle
    /\ DataIdle
    /\ TrainerIdle
    /\ MetricsIdle
    /\ rpc = "idle"
    /\ is_peft_model \in BOOLEAN
    /\ ref_adapter_name \in {None, <<"reference">>}
    \* adapters are named only on a peft model
    /\ ref_adapter_name # None => is_peft_model
    /\ model_adapter_name \in {None, <<"train">>}
    /\ model_adapter_name # None => is_peft_model
    /\ active_adapter = IF model_adapter_name # None THEN model_adapter_name[1] ELSE "default"
    /\ adapter_enabled = TRUE
    /\ ref_ran_with = None
    /\ policy_ran_with = None
    /\ adapter_calls = 0

\* compute_ref_log_probs with self.ref_model None; the forward pass inside
\* the context returns (outcome "returned") or raises (outcome "raised")
ComputeRefLogProbs(outcome) ==
    /\ adapter_calls < MaxAdapterCalls
    /\ adapter_calls' = adapter_calls + 1
    /\ LET inside == null_ref_context_enter(AdapterSelf, AdapterState)
           after == IF outcome = "returned"
                    THEN null_ref_context_exit(AdapterSelf, inside)
                    ELSE null_ref_context_raise(AdapterSelf, inside)
       IN  /\ ref_ran_with' = inside
           /\ active_adapter' = after.active
           /\ adapter_enabled' = after.enabled
    /\ rpc' = outcome
    /\ UNCHANGED <<is_peft_model, ref_adapter_name, model_adapter_name, policy_ran_with>>
    /\ UNCHANGED <<batchVars, lossVars, dataVars, trainerVars, metricsVars>>

ComputeRefLogProbsReturns == ComputeRefLogProbs("returned")

ComputeRefLogProbsRaises == ComputeRefLogProbs("raised")

\* line 2066: the forward pass of the policy in get_batch_loss_metrics
PolicyForward ==
    /\ adapter_calls < MaxAdapterCalls
    /\ adapter_calls' = adapter_calls + 1
    /\ policy_ran_with' = AdapterState
    /\ UNCHANGED <<rpc, is_peft_model, ref_adapter_name, model_adapter_name, active_adapter,
                   adapter_enabled, ref_ran_with>>
    /\ UNCHANGED <<batchVars, lossVars, dataVars, trainerVars, metricsVars>>

NextAdapter == ComputeRefLogProbsReturns \/ ComputeRefLogProbsRaises \/ PolicyForward

SpecAdapter == InitAdapter /\ [][NextAdapter]_vars

\* the adapter the policy trains on
TrainingAdapter == IF model_adapter_name # None THEN model_adapter_name[1] ELSE "default"

\* C29: when no separate reference model exists, every compute_ref_log_probs
\* call runs the forward pass with the trainable adapter disabled or the
\* reference adapter selected, and once the call has returned, or has raised
\* from the forward pass, the policy model is back on its training adapter
\* (model_adapter_name or "default") with the adapters enabled.
C29_PolicyBackOnTrainingAdapter ==
    rpc \in {"returned", "raised"} =>
        /\ is_peft_model =>
              IF ref_adapter_name # None
              THEN ref_ran_with.active = ref_adapter_name[1] /\ ref_ran_with.enabled
              ELSE ~ref_ran_with.enabled
        /\ active_adapter = TrainingAdapter
        /\ adapter_enabled
(***************************************************************************)
(* Spec: the trainer life cycle                                            *)
(***************************************************************************)
ConstructLossTypes == {"sigmoid", "bco_pair", "bogus", "kto_pair"}

\* the columns of the raw datasets handed to __init__
RawColumns == {MultiDpoKeys, StandardDpoKeys, {"prompt", "chosen"}}

Args ==
    [loss_type : ConstructLossTypes,
     precompute_ref_log_probs : BOOLEAN,
     sync_ref_model : BOOLEAN,
     reference_free : BOOLEAN,
     ref_model : BOOLEAN,                \* a reference model is passed
     train_columns : RawColumns,
     has_eval : BOOLEAN,                 \* eval_dataset is not None
     eval_columns : {MultiDpoKeys}]

Init ==
    /\ BatchIdle
    /\ DataIdle
    /\ MetricsIdle
    /\ AdapterIdle
    /\ lpc = "idle"
    /\ calls = 0
    /\ args \in Args
    /\ loss_type = args.loss_type
    /\ lambda_weight = 500
    /\ label_smoothing = 0
    /\ reference_free = args.reference_free       \* line 379
    /\ f_divergence_type = "reverse_kl"
    /\ running = None
    /\ policy_logps = None
    /\ ref_logps = None
    /\ loss_out = None
    /\ metrics = None
    /\ tpc = "new"
    /\ train_dataset = NoDataset
    /\ eval_dataset = NoDataset
    /\ precomputed_train_ref_log_probs = FALSE
    /\ precomputed_eval_ref_log_probs = FALSE
    /\ error = NoError
    /\ train_dataloader = NoDataset
    /\ eval_dataloader = NoDataset
    /\ served = {}
    /\ ref_passes = [d \in DatasetIds |-> 0]
    /\ loader_calls = 0
    /\ steps_started = 0
    /\ policy_forwards = 0
    /\ ref_forwards = 0
    /\ step_ref_calls = 0
    /\ callbacks = {}

\* __init__ without the check of lines 566-570
init_error_without_sync_check(a) ==
    LET train == prepare_dataset(a.train_columns)
        eval == prepare_dataset(a.eval_columns)
        ref_model_is_None == ~a.ref_model /\ a.precompute_ref_log_probs
    IN  IF a.loss_type = "kto_pair"
        THEN [status |-> "ValueError", message |-> "Support for kto_pair has been removed",
              where |-> "__init__"]
        ELSE IF train.status # "ok"
        THEN train @@ [where |-> "_prepare_dataset"]
        ELSE IF a.has_eval /\ eval.status # "ok"
        THEN eval @@ [where |-> "_prepare_dataset"]
        ELSE IF ref_model_is_None /\ a.sync_ref_model
        THEN [status |-> "ValueError", message |-> "cannot use ref_model=None with TR-DPO",
              where |-> "__init__"]
        ELSE NoError

\* what __init__ raises, in the order of its checks, or NoError
init_error(a) ==
    LET train == prepare_dataset(a.train_columns)
        eval == prepare_dataset(a.eval_columns)
        \* lines 381-394: without a reference model passed, one is created
        \* unless the reference log-probs are precomputed
        ref_model_is_None == ~a.ref_model /\ a.precompute_ref_log_probs
    IN  IF a.loss_type = "kto_pair"
        THEN [status |-> "ValueError", message |-> "Support for kto_pair has been removed",
              where |-> "__init__"]
        ELSE IF train.status # "ok"
        THEN train @@ [where |-> "_prepare_dataset"]
        ELSE IF a.has_eval /\ eval.status # "ok"
        THEN eval @@ [where |-> "_prepare_dataset"]
        ELSE IF ref_model_is_None /\ a.sync_ref_model
        THEN [status |-> "ValueError", message |-> "cannot use ref_model=None with TR-DPO",
              where |-> "__init__"]
        ELSE IF a.sync_ref_model /\ a.precompute_ref_log_probs
        THEN [status |-> "ValueError",
              message |-> "cannot use precompute_ref_log_probs=True with TR-DPO",
              where |-> "__init__"]
        ELSE NoError

\* MultiDPOTrainer.__init__
Construct ==
    /\ tpc = "new"
    /\ LET e == init_error(args)
       IN  /\ error' = e
           /\ tpc' = IF e = NoError THEN "ready" ELSE "failed"
           /\ train_dataset' = IF e = NoError THEN Dataset(TrainId, {}) ELSE NoDataset
           /\ eval_dataset' = IF e = NoError /\ args.has_eval
                              THEN Dataset(EvalId, {}) ELSE NoDataset
           \* line 571: reached only when nothing above it raised
           /\ callbacks' = IF e = NoError /\ args.sync_ref_model
                           THEN {"SyncRefModelCallback"} ELSE {}
           \* lines 573-574: the running moments exist only for bco_pair
           /\ running' = IF e = NoError /\ loss_type = "bco_pair"
                         THEN [count |-> 0, mean |-> 0] ELSE running
    /\ precomputed_train_ref_log_probs' = FALSE
    /\ precomputed_eval_ref_log_probs' = FALSE
    /\ UNCHANGED <<args, train_dataloader, eval_dataloader, served, ref_passes, loader_calls,
                   steps_started, policy_forwards, ref_forwards, step_ref_calls>>
    /\ UNCHANGED <<lpc, calls, loss_type, lambda_weight, label_smoothing, reference_free,
                   f_divergence_type, policy_logps, ref_logps, loss_out, metrics>>
    /\ UNCHANGED <<batchVars, dataVars, metricsVars, adapterVars>>

\* get_train_dataloader
GetTrainDataloader ==
    /\ tpc = "ready"
    /\ loader_calls < MaxLoaderCalls
    /\ loader_calls' = loader_calls + 1
    /\ IF args.precompute_ref_log_probs /\ ~precomputed_train_ref_log_probs
       THEN /\ ref_passes' = [ref_passes EXCEPT ![train_dataset.id] = @ + 1]
            /\ ref_forwards' = ref_forwards + 1
            /\ train_dataset' = add_ref_columns(train_dataset)
            /\ precomputed_train_ref_log_probs' = TRUE
       ELSE UNCHANGED <<ref_passes, ref_forwards, train_dataset,
                        precomputed_train_ref_log_probs>>
    /\ train_dataloader' = train_dataset'
    /\ served' = served \cup {train_dataset.id}
    /\ UNCHANGED <<tpc, args, callbacks, eval_dataset, precomputed_eval_ref_log_probs, error,
                   eval_dataloader, steps_started, policy_forwards, step_ref_calls>>
    /\ UNCHANGED <<batchVars, lossVars, dataVars, metricsVars, adapterVars>>

\* get_eval_dataloader(passed); passed = NoDataset is the call without argument
GetEvalDataloader(passed) ==
    /\ tpc = "ready"
    /\ loader_calls < MaxLoaderCalls
    /\ loader_calls' = loader_calls + 1
    /\ IF passed = NoDataset /\ eval_dataset = NoDataset
       THEN /\ error' = [status |-> "ValueError",
                         message |-> "Trainer: evaluation requires an eval_dataset.",
                         where |-> "get_eval_dataloader"]
            /\ UNCHANGED <<eval_dataset, precomputed_eval_ref_log_probs, eval_dataloader,
                           served, ref_passes, ref_forwards>>
       ELSE LET given == IF passed # NoDataset THEN passed ELSE eval_dataset
                precompute == args.precompute_ref_log_probs
                                 /\ ~precomputed_eval_ref_log_probs
                with_columns == IF precompute THEN add_ref_columns(given) ELSE given
            IN  /\ ref_passes' = IF precompute
                                 THEN [ref_passes EXCEPT ![given.id] = @ + 1]
                                 ELSE ref_passes
                /\ ref_forwards' = IF precompute THEN ref_forwards + 1 ELSE ref_forwards
                /\ eval_dataset' = IF precompute /\ eval_dataset # NoDataset
                                   THEN with_columns ELSE eval_dataset
                /\ precomputed_eval_ref_log_probs' =
                       (precompute \/ precomputed_eval_ref_log_probs)
                /\ eval_dataloader' = with_columns
                /\ served' = served \cup {given.id}
                /\ UNCHANGED error
    /\ UNCHANGED <<tpc, args, callbacks, train_dataset, precomputed_train_ref_log_probs,
                   train_dataloader, steps_started, policy_forwards, step_ref_calls>>
    /\ UNCHANGED <<batchVars, lossVars, dataVars, metricsVars, adapterVars>>

\* the reference log-probs of the batch every step works on
StepRef ==
    [chosen_logps_dpo |-> RefVector(0, 2),
     rejected_logps_dpo |-> RefVector(0 - 2000, 2),
     chosen_logps_adpo |-> RefVector(0, 2),
     rejected_logps_adpo |-> RefVector(0 - 2000, 2)]

\* what the loss call of a step leaves in the trainer
AfterStepLoss(out) ==
    /\ error' = IF out.status = "ok"
                THEN error
                ELSE [status |-> out.status, message |-> out.message,
                      valid_set_named |-> out.valid_set_named, where |-> "dpo_loss"]
    /\ label_smoothing' = out.label_smoothing
    /\ running' = out.running

\* compute_loss line 2181, prediction_step line 2257: the metrics of the step
\* are stored for the phase; a step whose loss raised stores nothing
AfterStepMetrics(res, train_eval) ==
    IF res.out.status = "ok"
    THEN /\ stored_metrics' = store_metrics(stored_metrics, res.metrics, train_eval)
         /\ since_flush' = [since_flush EXCEPT ![train_eval] = @ \o MetricPairs(res.metrics)]
    ELSE UNCHANGED <<stored_metrics, since_flush>>

\* get_batch_loss_metrics on a batch of the dataloader over `ds` and
\* store_metrics, as compute_loss (training step) and prediction_step
\* (evaluation step) call them
Step(ds, train_eval) ==
    /\ tpc = "ready"
    /\ ds # NoDataset
    /\ steps_started < MaxSteps
    /\ steps_started' = steps_started + 1
    /\ policy_forwards' = policy_forwards + 1
    /\ IF RefColumns \subseteq ds.ref_columns
       THEN UNCHANGED <<ref_forwards, step_ref_calls>>
       ELSE /\ ref_forwards' = ref_forwards + 1
            /\ step_ref_calls' = step_ref_calls + 1
    /\ AfterStepLoss(multidpo_loss(ScenarioPolicy, StepRef, St, lambda_weight))
    /\ AfterStepMetrics(batch_loss_metrics(ScenarioPolicy, StepRef, St, lambda_weight),
                        train_eval)
    /\ UNCHANGED <<logs, metric_calls>>
    /\ UNCHANGED <<tpc, args, callbacks, train_dataset, eval_dataset, precomputed_train_ref_log_probs,
                   precomputed_eval_ref_log_probs, train_dataloader, eval_dataloader,
                   served, ref_passes, loader_calls>>
    /\ UNCHANGED <<lpc, calls, loss_type, lambda_weight, reference_free, f_divergence_type,
                   policy_logps, ref_logps, loss_out, metrics>>
    /\ UNCHANGED <<batchVars, dataVars, adapterVars>>

TrainStep == Step(train_dataloader, "train")

EvalStep == Step(eval_dataloader, "eval")

GetEvalDataloaderOwn == GetEvalDataloader(NoDataset)

GetEvalDataloaderPassed == \E id \in PassedIds : GetEvalDataloader(Dataset(id, {}))

Next ==
    \/ Construct
    \/ GetTrainDataloader
    \/ GetEvalDataloaderOwn
    \/ GetEvalDataloaderPassed
    \/ TrainStep
    \/ EvalStep

Spec == Init /\ [][Next]_vars

\* C6: an unsupported loss_type is rejected with an error that names the
\* valid set, and the rejection happens at construction: no forward pass of
\* the policy or the reference model and no training step runs before the
\* error is raised.
C6_UnsupportedLossTypeAtConstruction ==
    /\ (error.status = "ValueError" /\ error.message = "Unknown loss type") =>
          /\ error.valid_set_named = SupportedLossTypes
          /\ error.where = "__init__"
          /\ policy_forwards = 0
          /\ ref_forwards = 0
          /\ steps_started = 0
    /\ (args.loss_type \notin SupportedLossTypes /\ tpc # "new") => tpc = "failed"

\* C9: in precompute mode, over any sequence of get_train_dataloader and
\* get_eval_dataloader calls the reference pass over the train dataset and
\* over each eval dataset a dataloader was returned for has run exactly once,
\* a done-flag is true only with the four reference columns appended, and no
\* dataset's columns are computed a second time.
C9_ReferencePassOncePerDataset ==
    (tpc = "ready" /\ args.precompute_ref_log_probs) =>
        /\ \A d \in served : ref_passes[d] = 1
        /\ \A d \in DatasetIds : ref_passes[d] <= 1
        /\ precomputed_train_ref_log_probs => RefColumns \subseteq train_dataset.ref_columns
        /\ precomputed_eval_ref_log_probs =>
              \E d \in DatasetIds \ {TrainId} : ref_passes[d] = 1

\* C10: in precompute mode, after any sequence of get_eval_dataloader calls
\* the dataset behind every returned dataloader carries the four reference
\* columns, so no train or eval step calls compute_ref_log_probs.
C10_LoadersCarryReferenceColumns ==
    (tpc = "ready" /\ args.precompute_ref_log_probs) =>
        /\ train_dataloader # NoDataset => RefColumns \subseteq train_dataloader.ref_columns
        /\ eval_dataloader # NoDataset => RefColumns \subseteq eval_dataloader.ref_columns
        /\ step_ref_calls = 0


\* the two errors __init__ raises for sync_ref_model (TR-DPO)
SyncErrors == {"cannot use ref_model=None with TR-DPO",
               "cannot use precompute_ref_log_probs=True with TR-DPO"}

\* C11: with precompute_ref_log_probs and sync_ref_model both enabled the
\* construction always fails, whether or not a reference model was passed,
\* and the reference-sync callback is never registered; when nothing else
\* is wrong with the arguments the error is one of the two TR-DPO
\* configuration errors of __init__.
C11_PrecomputeWithSyncRejected ==
    (args.precompute_ref_log_probs /\ args.sync_ref_model /\ tpc # "new") =>
        /\ tpc = "failed"
        /\ error # NoError
        /\ callbacks = {}
        /\ error.where = "__init__" =>
              /\ error.status = "ValueError"
              /\ args.loss_type # "kto_pair" => error.message \in SyncErrors
              /\ (args.loss_type # "kto_pair" /\ args.ref_model) =>
                    error.message = "cannot use precompute_ref_log_probs=True with TR-DPO"

C11_Witness ==
    /\ tpc = "failed"
    /\ args.precompute_ref_log_probs
    /\ args.sync_ref_model
    /\ args.ref_model
    /\ error.message = "cannot use precompute_ref_log_probs=True with TR-DPO"
    /\ callbacks = {}

\* C12: with reference_free and sync_ref_model both enabled the
\* construction fails, so no trainer exists that has the reference-sync
\* callback registered while reference_free is true.
C12_ReferenceFreeWithSyncRejected ==
    /\ (args.reference_free /\ args.sync_ref_model /\ tpc # "new") => tpc = "failed"
    /\ reference_free => "SyncRefModelCallback" \notin callbacks

\* bco_pair on one pair: the mean reward of the pair and, given the baseline
\* delta, the losses
BcoMeanReward(c, r, rc, rr) ==
    mean([i \in 1..Len(c) |-> FMul(beta, c[i] - rc[i])]
         \o [i \in 1..Len(r) |-> FMul(beta, r[i] - rr[i])])

BcoLosses(c, r, rc, rr, delta) ==
    [i \in 1..Len(c) |->
        (0 - logsigmoid(FMul(beta, c[i] - rc[i]) - delta))
        - logsigmoid(0 - (FMul(beta, r[i] - rr[i]) - delta))]

\* C25: with bco_pair every training or evaluation step updates the running
\* mean exactly twice, first with the mean reward of the dpo pair and then
\* with that of the adpo pair; the dpo losses use the baseline after the first
\* update and the adpo losses the baseline after the second, which includes
\* the dpo rewards.  With any other loss_type the running mean is never
\* created or updated.
C25_RunningMeanUpdatedTwice ==
    [][IF loss_type = "bco_pair"
       THEN steps_started' = steps_started + 1 =>
              LET p == ScenarioPolicy
                  q == StepRef
                  after_dpo ==
                      running_update(running,
                                     BcoMeanReward(p.chosen_logps_dpo, p.rejected_logps_dpo,
                                                   q.chosen_logps_dpo, q.rejected_logps_dpo))
                  after_adpo ==
                      running_update(after_dpo,
                                     BcoMeanReward(p.chosen_logps_adpo, p.rejected_logps_adpo,
                                                   q.chosen_logps_adpo, q.rejected_logps_adpo))
                  losses_dpo == BcoLosses(p.chosen_logps_dpo, p.rejected_logps_dpo,
                                          q.chosen_logps_dpo, q.rejected_logps_dpo,
                                          after_dpo.mean)
                  losses_adpo == BcoLosses(p.chosen_logps_adpo, p.rejected_logps_adpo,
                                           q.chosen_logps_adpo, q.rejected_logps_adpo,
                                           after_adpo.mean)
                  phase == IF stored_metrics'["train"] # stored_metrics["train"]
                           THEN "train" ELSE "eval"
                  stored_loss == stored_metrics'[phase]["loss"]
              IN  /\ running'.count = running.count + 2
                  /\ running' = after_adpo
                  /\ stored_loss[Len(stored_loss)]
                        = mean([i \in 1..Len(losses_dpo) |->
                                   combine(lambda_weight, losses_dpo[i], losses_adpo[i])])
       ELSE running = None /\ running' = None]_vars

\* a bco_pair trainer has made a training step and an evaluation step, four
\* updates of the running mean, which moved it
C25_Witness ==
    /\ loss_type = "bco_pair"
    /\ running # None
    /\ running.count = 4
    /\ running.mean # 0
    /\ "loss" \in DOMAIN stored_metrics["train"]
    /\ "loss" \in DOMAIN stored_metrics["eval"]
====
